---- MODULE Spec2Model ----
(***************************************************************************)
(* Retrieval subsystem of TerraMindAI (backend/rag_system.py): the chunker, *)
(* the ingestion pipeline, the parallel arrays documents / metadata / index *)
(* and filtered nearest-neighbour retrieval.                                *)
(*                                                                          *)
(* Python values are encoded as sequences so that values of different       *)
(* Python types can be compared: a str is the sequence of its characters    *)
(* (each a one-character string), None is <<"None">>, NaN is <<"NaN">> and  *)
(* the float h/100 is <<"num", h>>.  A dict is a function whose domain is   *)
(* the set of its keys.  Positions are 1-based here, 0-based in the source. *)
(* A character is written as itself, "\t", "\n", "\f", "\r" included; a     *)
(* control character without such an escape, the grave accent and a         *)
(* character above U+00FF, which a string of this module cannot hold, are   *)
(* written by their code point in four or more hexadecimal digits:          *)
(* "U+000B", "U+0060", "U+2028".                                            *)
(* Where an operator uses the outcome v of a long computation more than     *)
(* once, CHOOSE r \in {e(x) : x \in {v}} : TRUE stands for e(v).              *)
(***************************************************************************)
EXTENDS Integers, Sequences, FiniteSets, TLC

VARIABLES documents, metadata, index, disk, pc, ret, seen,
          ck_text, ck_size, ck_overlap, ck_start, ck_chunks, ck_pc, boot,
          threads, handler

vars == <<documents, metadata, index, disk, pc, ret, seen,
          ck_text, ck_size, ck_overlap, ck_start, ck_chunks, ck_pc, boot,
          threads, handler>>

store == <<documents, metadata, index>>

chunker == <<ck_text, ck_size, ck_overlap, ck_start, ck_chunks, ck_pc>>

----------------------------------------------------------------------------
(* Python values *)

None == <<"None">>

NaN == <<"NaN">>

\* a float: Num(h) is the double nearest to h hundredths, every other
\* double is <<"float", s, m, e>> (see Floats below)
Num(n) == <<"num", n>>

\* -0.0
NegZero == <<"float", -1, <<>>, -1074>>

IsNum(v) ==
    \/ Len(v) = 2 /\ v[1] = "num"
    \/ Len(v) = 4 /\ v[1] = "float"

IsStr(v) == v # None /\ v # NaN /\ ~IsNum(v)

\* a test "is not None" in place of the truth test: the empty string counts
\* as given
TruthyNotNone(v) == v # None

\* bool(v): None, "", 0.0 and -0.0 are false; NaN and every other value
\* are true
Truthy(v) == v # None /\ v # <<>> /\ v # Num(0) /\ v # NegZero

\* a == b: NaN is equal to nothing, itself included, and 0.0 to -0.0
Eq(a, b) == (a = b \/ {a, b} = {Num(0), NegZero}) /\ a # NaN

EmptyDict == [x \in {} |-> None]

\* d.get(key): None when the key is missing
Get(d, key) == IF key \in DOMAIN d THEN d[key] ELSE None

\* d.get(key, default)
GetOr(d, key, default) == IF key \in DOMAIN d THEN d[key] ELSE default

\* d[key] = value
Put(d, key, value) ==
    [x \in DOMAIN d \cup {key} |-> IF x = key THEN value ELSE d[x]]

Min(a, b) == IF a < b THEN a ELSE b

Max(a, b) == IF a > b THEN a ELSE b

Abs(n) == IF n < 0 THEN -n ELSE n

\* the characters str.isspace() is true of: str.strip() and str.split()
\* remove them (U+00A0, the no-break space, is written as itself)
Whitespace ==
    {"\t", "\n", "U+000B", "\f", "\r", "U+001C", "U+001D", "U+001E",
     "U+001F", " ", "U+0085", " ", "U+1680", "U+2000", "U+2001", "U+2002",
     "U+2003", "U+2004", "U+2005", "U+2006", "U+2007", "U+2008", "U+2009",
     "U+200A", "U+2028", "U+2029", "U+202F", "U+205F", "U+3000"}

\* s[a:b] with Python's index normalisation (0-based, b exclusive)
PySlice(s, a, b) ==
    LET n  == Len(s)
        na == IF a < 0 THEN Max(a + n, 0) ELSE Min(a, n)
        nb == IF b < 0 THEN Max(b + n, 0) ELSE Min(b, n)
    IN  IF na < nb THEN SubSeq(s, na + 1, nb) ELSE <<>>

\* s.rfind(c): 0-based position of the last c, -1 when there is none
RFind(s, c) ==
    LET hits == {i \in 1..Len(s) : s[i] = c}
    IN  IF hits = {} THEN -1
        ELSE (CHOOSE i \in hits : \A j \in hits : j <= i) - 1

\* s.strip()
Strip(s) ==
    LET keep == {i \in 1..Len(s) : s[i] \notin Whitespace}
    IN  IF keep = {} THEN <<>>
        ELSE SubSeq(s, CHOOSE i \in keep : \A j \in keep : i <= j,
                       CHOOSE i \in keep : \A j \in keep : j <= i)

----------------------------------------------------------------------------
(* _chunk_text: one iteration of the while loop, and the whole loop *)

\* The early cut is taken when 2 * break_point > chunk_size
\* (break_point > chunk_size * 0.5).
ChunkCut(text, chunk_size, start) ==
    LET end0  == start + chunk_size
        chunk == PySlice(text, start, end0)
        bp    == Max(RFind(chunk, "."), RFind(chunk, "\n"))
    IN  IF end0 < Len(text) /\ 2 * bp > chunk_size
        THEN [chunk |-> PySlice(chunk, 0, bp + 1), end |-> start + bp + 1]
        ELSE [chunk |-> chunk, end |-> end0]

\* an iteration that forgets the overlap: the next chunk starts at end
ChunkStepNoOverlap(text, chunk_size, chunk_overlap, start) ==
    LET cut == ChunkCut(text, chunk_size, start)
    IN  [chunk |-> Strip(cut.chunk), start |-> cut.end]

ChunkStep(text, chunk_size, chunk_overlap, start) ==
    LET cut == ChunkCut(text, chunk_size, start)
    IN  [chunk |-> Strip(cut.chunk), start |-> cut.end - chunk_overlap]

\* The while loop at start, with the chunks made so far and the earlier
\* starts.  The next start depends on start alone, so the loop never ends
\* when a start comes back, or when the start before this one was so far
\* below 0 that every slice from it on is empty and this start is no
\* higher.  status is "ok" with the list the call returns, or "no return"
\* with the chunks made until the loop is known not to end.
RECURSIVE ChunkLoop(_, _, _, _, _, _)
ChunkLoop(text, chunk_size, chunk_overlap, start, chunks, starts) ==
    IF \E n \in DOMAIN starts :
          \/ starts[n] = start
          \/ /\ n = Len(starts)
             /\ starts[n] < -(Len(text) + Abs(chunk_size))
             /\ start <= starts[n]
    THEN [status |-> "no return", chunks |-> chunks]
    ELSE IF ~(start < Len(text)) THEN [status |-> "ok", chunks |-> chunks]
    ELSE LET s == ChunkStep(text, chunk_size, chunk_overlap, start)
         IN  ChunkLoop(text, chunk_size, chunk_overlap, s.start,
                       Append(chunks, s.chunk), Append(starts, start))

ChunkText(text, chunk_size, chunk_overlap) ==
    ChunkLoop(text, chunk_size, chunk_overlap, 0, <<>>, <<>>)

----------------------------------------------------------------------------
(* _embed_text, and the flat L2 index (faiss.IndexFlatL2) *)

Count(s, c) == Cardinality({i \in 1..Len(s) : s[i] = c})

\* The embedder is an external pretrained model: a deterministic map from a
\* text to a vector of fixed dimension.  Here: how many "a" and how many
\* "b" the text holds.
Embed(text) == <<Count(text, "a"), Count(text, "b")>>

\* squared Euclidean distance, as IndexFlatL2 reports it
Dist(u, v) == (u[1] - v[1]) * (u[1] - v[1]) + (u[2] - v[2]) * (u[2] - v[2])

\* the order of a search that ranks the farthest vector first
NearerReversed(ix, q, p, r) ==
    \/ Dist(ix[p], q) > Dist(ix[r], q)
    \/ Dist(ix[p], q) = Dist(ix[r], q) /\ p < r

\* position p is nearer to q than position r (ties: lower position first)
Nearer(ix, q, p, r) ==
    \/ Dist(ix[p], q) < Dist(ix[r], q)
    \/ Dist(ix[p], q) = Dist(ix[r], q) /\ p < r

RECURSIVE SearchFrom(_, _, _, _)
SearchFrom(ix, q, k, left) ==
    IF k = 0 \/ left = {} THEN <<>>
    ELSE LET best == CHOOSE p \in left :
                        \A r \in left \ {p} : Nearer(ix, q, p, r)
         IN  <<best>> \o SearchFrom(ix, q, k - 1, left \ {best})

\* index.search(q, k): the positions of the k nearest vectors, nearest
\* first.  An index that holds fewer than k vectors fills the rest with the
\* position -1, which is 0 here, the positions being counted from 1
Search(ix, q, k) ==
    LET found == SearchFrom(ix, q, k, 1..Len(ix))
    IN  found \o [n \in 1..(k - Len(found)) |-> 0]

\* the largest float32, the distance index.search reports with a position
\* of -1
FLT_MAX == <<"float", 1, <<0, 16384, 32767, 255>>, 75>>

\* the distance index.search reports with the position p
Distance(ix, q, p) == IF p = 0 THEN FLT_MAX ELSE Dist(ix[p], q)

\* list[idx] for the position p = idx + 1: the index -1 is the last element
At(list, p) == list[IF p = 0 THEN Len(list) ELSE p]

\* list[idx] raises IndexError: the list has no such element
Beyond(list, p) == p > Len(list) \/ Len(list) = 0

\* index.add(vectors)
IndexAdd(ix, vectors) == ix \o vectors

----------------------------------------------------------------------------
(* retrieve and get_context_for_lesson *)

\* search_k = k * 3 if (dataset_name or lesson_id or person_id) else k
\* search_k = min(search_k, len(self.documents))
SearchK(docs, k, lesson_id, person_id, dataset_name) ==
    Min(IF Truthy(dataset_name) \/ Truthy(lesson_id) \/ Truthy(person_id)
        THEN k * 3 ELSE k,
        Len(docs))

\* all(meta.get(k) == v for k, v in filter_metadata.items())
MatchesAll(meta, filter_metadata) ==
    \A key \in DOMAIN filter_metadata :
        Eq(Get(meta, key), filter_metadata[key])

\* filter tests that read a missing lesson_id as the requested one
\* (meta.get('lesson_id', lesson_id))
PassesMissingLesson(meta, lesson_id, person_id, filter_metadata, dataset_name) ==
    /\ ~(Truthy(dataset_name) /\ ~Eq(Get(meta, "dataset_name"), dataset_name))
    /\ ~(Truthy(lesson_id)
             /\ ~Eq(GetOr(meta, "lesson_id", lesson_id), lesson_id))
    /\ ~(Truthy(person_id) /\ ~Eq(Get(meta, "person_id"), person_id))
    /\ ~(DOMAIN filter_metadata # {} /\ ~MatchesAll(meta, filter_metadata))

\* The filter tests of the loop body: TRUE when the candidate is kept.
\* filter_metadata is a dict; an absent (None) mapping is the empty dict,
\* which "if filter_metadata:" treats alike.
Passes(meta, lesson_id, person_id, filter_metadata, dataset_name) ==
    /\ ~(Truthy(dataset_name) /\ ~Eq(Get(meta, "dataset_name"), dataset_name))
    /\ ~(Truthy(lesson_id) /\ ~Eq(Get(meta, "lesson_id"), lesson_id))
    /\ ~(Truthy(person_id) /\ ~Eq(Get(meta, "person_id"), person_id))
    /\ ~(DOMAIN filter_metadata # {} /\ ~MatchesAll(meta, filter_metadata))

\* the loop without its stop at k results
RECURSIVE WalkNoStop(_, _, _, _, _, _)
WalkNoStop(docs, metas, cands, i, a, hits) ==
    IF i > Len(cands) THEN [status |-> "ok", idx |-> hits]
    ELSE IF Beyond(docs, cands[i]) \/ Beyond(metas, cands[i])
         THEN [status |-> "raised", idx |-> hits]
    ELSE IF ~Passes(At(metas, cands[i]), a.lesson_id, a.person_id,
                    a.filter_metadata, a.dataset_name)
         THEN WalkNoStop(docs, metas, cands, i + 1, a, hits)
         ELSE WalkNoStop(docs, metas, cands, i + 1, a,
                         Append(hits, cands[i]))

\* the loop with a break where the code has continue: the first candidate
\* that fails a filter ends the walk
RECURSIVE WalkStopAtMiss(_, _, _, _, _, _)
WalkStopAtMiss(docs, metas, cands, i, a, hits) ==
    IF i > Len(cands) THEN [status |-> "ok", idx |-> hits]
    ELSE IF Beyond(docs, cands[i]) \/ Beyond(metas, cands[i])
         THEN [status |-> "raised", idx |-> hits]
    ELSE IF ~Passes(At(metas, cands[i]), a.lesson_id, a.person_id,
                    a.filter_metadata, a.dataset_name)
         THEN [status |-> "ok", idx |-> hits]
         ELSE IF Len(hits) + 1 >= a.k
              THEN [status |-> "ok", idx |-> Append(hits, cands[i])]
              ELSE WalkStopAtMiss(docs, metas, cands, i + 1, a,
                                  Append(hits, cands[i]))

\* The loop over the candidates, from candidate i on: self.documents[idx]
\* or self.metadata[idx] raises IndexError for a position the list does not
\* have; else append the positions that pass, stop when there are k
\* results.  a holds the arguments of the call.
RECURSIVE Walk(_, _, _, _, _, _)
Walk(docs, metas, cands, i, a, hits) ==
    IF i > Len(cands) THEN [status |-> "ok", idx |-> hits]
    ELSE IF Beyond(docs, cands[i]) \/ Beyond(metas, cands[i])
         THEN [status |-> "raised", idx |-> hits]
    ELSE IF ~Passes(At(metas, cands[i]), a.lesson_id, a.person_id,
                    a.filter_metadata, a.dataset_name)
         THEN Walk(docs, metas, cands, i + 1, a, hits)
         ELSE IF Len(hits) + 1 >= a.k
              THEN [status |-> "ok", idx |-> Append(hits, cands[i])]
              ELSE Walk(docs, metas, cands, i + 1, a, Append(hits, cands[i]))

\* results.append((doc, meta, distance))
ResultTuple(docs, metas, ix, q, p) ==
    <<At(docs, p), At(metas, p), Distance(ix, q, p)>>

\* retrieve from its second statement on (the store holds documents): the
\* call raises when the loop does, and returns the results otherwise
RetrieveSearch(docs, metas, ix, a) ==
    LET q     == Embed(a.query)
        cands == Search(ix, q, SearchK(docs, a.k, a.lesson_id,
                                       a.person_id, a.dataset_name))
        walk  == Walk(docs, metas, cands, 1, a, <<>>)
    IN  [status |-> walk.status, cands |-> cands, idx |-> walk.idx,
         value |-> IF walk.status = "raised" THEN <<>>
                   ELSE [n \in 1..Len(walk.idx) |->
                           ResultTuple(docs, metas, ix, q, walk.idx[n])]]

\* retrieve without its test for an empty store: index.search is asked for
\* min(k, 0) neighbours, which it refuses
RetrieveNoEmptyTest(docs, metas, ix, a) ==
    IF SearchK(docs, a.k, a.lesson_id, a.person_id, a.dataset_name) < 1
    THEN [status |-> "raised", cands |-> <<>>, idx |-> <<>>, value |-> <<>>]
    ELSE RetrieveSearch(docs, metas, ix, a)

\* retrieve(query, k, lesson_id, person_id, filter_metadata, dataset_name)
\* with a = the arguments.  cands and idx are the candidate positions and
\* the positions of the results; value is the list the call returns.
Retrieve(docs, metas, ix, a) ==
    IF Len(docs) = 0
    THEN [status |-> "ok", cands |-> <<>>, idx |-> <<>>, value |-> <<>>]
    ELSE RetrieveSearch(docs, metas, ix, a)

\* str(v) inside an f-string
StrOf(v) ==
    IF v = None THEN <<"N", "o", "n", "e">>
    ELSE IF v = NaN THEN <<"n", "a", "n">>
    ELSE v

\* "\n\n".join(parts)
RECURSIVE JoinBlank(_)
JoinBlank(parts) ==
    IF Len(parts) = 0 THEN <<>>
    ELSE IF Len(parts) = 1 THEN parts[1]
    ELSE parts[1] \o <<"\n", "\n">> \o JoinBlank(Tail(parts))

\* the query get_context_for_lesson searches with
SearchQuery(lesson_id, person_id, query) ==
    IF Truthy(query) THEN query
    ELSE <<"l", "e", "s", "s", "o", "n", " ">> \o StrOf(lesson_id)
         \o (IF Truthy(person_id)
             THEN <<" ", "p", "e", "r", "s", "o", "n", " ">> \o StrOf(person_id)
             ELSE <<>>)

\* a call that leaves the person filter out
ContextCallNoPerson(a) ==
    [query |-> SearchQuery(a.lesson_id, a.person_id, a.query), k |-> a.k,
     lesson_id |-> a.lesson_id, person_id |-> None,
     filter_metadata |-> EmptyDict, dataset_name |-> a.dataset_name]

\* the arguments get_context_for_lesson hands to retrieve
ContextCall(a) ==
    [query |-> SearchQuery(a.lesson_id, a.person_id, a.query), k |-> a.k,
     lesson_id |-> a.lesson_id, person_id |-> a.person_id,
     filter_metadata |-> EmptyDict, dataset_name |-> a.dataset_name]

\* get_context_for_lesson(lesson_id, person_id, query, k, dataset_name)
GetContextForLesson(docs, metas, ix, a) ==
    LET r == Retrieve(docs, metas, ix, ContextCall(a))
    IN  [status |-> r.status, cands |-> r.cands, idx |-> r.idx,
         value |-> IF Len(r.value) = 0 THEN <<>>
                   ELSE JoinBlank([n \in 1..Len(r.value) |-> r.value[n][1]])]

----------------------------------------------------------------------------
(* String helpers of the metadata code *)

\* The characters the rule of str.lower() for a final sigma looks at: cased
\* are the cased characters that are not case-ignorable, ignorable the
\* case-ignorable ones.
CaseTables ==
    [cased |->
        {"A", "B", "C", "D", "E", "F", "G", "H", "I", "J", "K", "L", "M", "N",
         "O", "P", "Q", "R", "S", "T", "U", "V", "W", "X", "Y", "Z", "a", "b",
         "c", "d", "e", "f", "g", "h", "i", "j", "k", "l", "m", "n", "o", "p",
         "q", "r", "s", "t", "u", "v", "w", "x", "y", "z", "ª", "µ", "º", "À",
         "Á", "Â", "Ã", "Ä", "Å", "Æ", "Ç", "È", "É", "Ê", "Ë", "Ì", "Í", "Î",
         "Ï", "Ð", "Ñ", "Ò", "Ó", "Ô", "Õ", "Ö", "Ø", "Ù", "Ú", "Û", "Ü", "Ý",
         "Þ", "ß", "à", "á", "â", "ã", "ä", "å", "æ", "ç", "è", "é", "ê", "ë",
         "ì", "í", "î", "ï", "ð", "ñ", "ò", "ó", "ô", "õ", "ö", "ø", "ù", "ú",
         "û", "ü", "ý", "þ", "ÿ", "U+0100", "U+0101", "U+0102", "U+0103",
         "U+0104", "U+0105", "U+0106", "U+0107", "U+0108", "U+0109", "U+010A",
         "U+010B", "U+010C", "U+010D", "U+010E", "U+010F", "U+0110", "U+0111",
         "U+0112", "U+0113", "U+0114", "U+0115", "U+0116", "U+0117", "U+0118",
         "U+0119", "U+011A", "U+011B", "U+011C", "U+011D", "U+011E", "U+011F",
         "U+0120", "U+0121", "U+0122", "U+0123", "U+0124", "U+0125", "U+0126",
         "U+0127", "U+0128", "U+0129", "U+012A", "U+012B", "U+012C", "U+012D",
         "U+012E", "U+012F", "U+0130", "U+0131", "U+0132", "U+0133", "U+0134",
         "U+0135", "U+0136", "U+0137", "U+0138", "U+0139", "U+013A", "U+013B",
         "U+013C", "U+013D", "U+013E", "U+013F", "U+0140", "U+0141", "U+0142",
         "U+0143", "U+0144", "U+0145", "U+0146", "U+0147", "U+0148", "U+0149",
         "U+014A", "U+014B", "U+014C", "U+014D", "U+014E", "U+014F", "U+0150",
         "U+0151", "U+0152", "U+0153", "U+0154", "U+0155", "U+0156", "U+0157",
         "U+0158", "U+0159", "U+015A", "U+015B", "U+015C", "U+015D", "U+015E",
         "U+015F", "U+0160", "U+0161", "U+0162", "U+0163", "U+0164", "U+0165",
         "U+0166", "U+0167", "U+0168", "U+0169", "U+016A", "U+016B", "U+016C",
         "U+016D", "U+016E", "U+016F", "U+0170", "U+0171", "U+0172", "U+0173",
         "U+0174", "U+0175", "U+0176", "U+0177", "U+0178", "U+0179", "U+017A",
         "U+017B", "U+017C", "U+017D", "U+017E", "U+017F", "U+0180", "U+0181",
         "U+0182", "U+0183", "U+0184", "U+0185", "U+0186", "U+0187", "U+0188",
         "U+0189", "U+018A", "U+018B", "U+018C", "U+018D", "U+018E", "U+018F",
         "U+0190", "U+0191", "U+0192", "U+0193", "U+0194", "U+0195", "U+0196",
         "U+0197", "U+0198", "U+0199", "U+019A", "U+019B", "U+019C", "U+019D",
         "U+019E", "U+019F", "U+01A0", "U+01A1", "U+01A2", "U+01A3", "U+01A4",
         "U+01A5", "U+01A6", "U+01A7", "U+01A8", "U+01A9", "U+01AA", "U+01AB",
         "U+01AC", "U+01AD", "U+01AE", "U+01AF", "U+01B0", "U+01B1", "U+01B2",
         "U+01B3", "U+01B4", "U+01B5", "U+01B6", "U+01B7", "U+01B8", "U+01B9",
         "U+01BA", "U+01BC", "U+01BD", "U+01BE", "U+01BF", "U+01C4", "U+01C5",
         "U+01C6", "U+01C7", "U+01C8", "U+01C9", "U+01CA", "U+01CB", "U+01CC",
         "U+01CD", "U+01CE", "U+01CF", "U+01D0", "U+01D1", "U+01D2", "U+01D3",
         "U+01D4", "U+01D5", "U+01D6", "U+01D7", "U+01D8", "U+01D9", "U+01DA",
         "U+01DB", "U+01DC", "U+01DD", "U+01DE", "U+01DF", "U+01E0", "U+01E1",
         "U+01E2", "U+01E3", "U+01E4", "U+01E5", "U+01E6", "U+01E7", "U+01E8",
         "U+01E9", "U+01EA", "U+01EB", "U+01EC", "U+01ED", "U+01EE", "U+01EF",
         "U+01F0", "U+01F1", "U+01F2", "U+01F3", "U+01F4", "U+01F5", "U+01F6",
         "U+01F7", "U+01F8", "U+01F9", "U+01FA", "U+01FB", "U+01FC", "U+01FD",
         "U+01FE", "U+01FF", "U+0200", "U+0201", "U+0202", "U+0203", "U+0204",
         "U+0205", "U+0206", "U+0207", "U+0208", "U+0209", "U+020A", "U+020B",
         "U+020C", "U+020D", "U+020E", "U+020F", "U+0210", "U+0211", "U+0212",
         "U+0213", "U+0214", "U+0215", "U+0216", "U+0217", "U+0218", "U+0219",
         "U+021A", "U+021B", "U+021C", "U+021D", "U+021E", "U+021F", "U+0220",
         "U+0221", "U+0222", "U+0223", "U+0224", "U+0225", "U+0226", "U+0227",
         "U+0228", "U+0229", "U+022A", "U+022B", "U+022C", "U+022D", "U+022E",
         "U+022F", "U+0230", "U+0231", "U+0232", "U+0233", "U+0234", "U+0235",
         "U+0236", "U+0237", "U+0238", "U+0239", "U+023A", "U+023B", "U+023C",
         "U+023D", "U+023E", "U+023F", "U+0240", "U+0241", "U+0242", "U+0243",
         "U+0244", "U+0245", "U+0246", "U+0247", "U+0248", "U+0249", "U+024A",
         "U+024B", "U+024C", "U+024D", "U+024E", "U+024F", "U+0250", "U+0251",
         "U+0252", "U+0253", "U+0254", "U+0255", "U+0256", "U+0257", "U+0258",
         "U+0259", "U+025A", "U+025B", "U+025C", "U+025D", "U+025E", "U+025F",
         "U+0260", "U+0261", "U+0262", "U+0263", "U+0264", "U+0265", "U+0266",
         "U+0267", "U+0268", "U+0269", "U+026A", "U+026B", "U+026C", "U+026D",
         "U+026E", "U+026F", "U+0270", "U+0271", "U+0272", "U+0273", "U+0274",
         "U+0275", "U+0276", "U+0277", "U+0278", "U+0279", "U+027A", "U+027B",
         "U+027C", "U+027D", "U+027E", "U+027F", "U+0280", "U+0281", "U+0282",
         "U+0283", "U+0284", "U+0285", "U+0286", "U+0287", "U+0288", "U+0289",
         "U+028A", "U+028B", "U+028C", "U+028D", "U+028E", "U+028F", "U+0290",
         "U+0291", "U+0292", "U+0293", "U+0295", "U+0296", "U+0297", "U+0298",
         "U+0299", "U+029A", "U+029B", "U+029C", "U+029D", "U+029E", "U+029F",
         "U+02A0", "U+02A1", "U+02A2", "U+02A3", "U+02A4", "U+02A5", "U+02A6",
         "U+02A7", "U+02A8", "U+02A9", "U+02AA", "U+02AB", "U+02AC", "U+02AD",
         "U+02AE", "U+02AF", "U+0370", "U+0371", "U+0372", "U+0373", "U+0376",
         "U+0377", "U+037B", "U+037C", "U+037D", "U+037F", "U+0386", "U+0388",
         "U+0389", "U+038A", "U+038C", "U+038E", "U+038F", "U+0390", "U+0391",
         "U+0392", "U+0393", "U+0394", "U+0395", "U+0396", "U+0397", "U+0398",
         "U+0399", "U+039A", "U+039B", "U+039C", "U+039D", "U+039E", "U+039F",
         "U+03A0", "U+03A1", "U+03A3", "U+03A4", "U+03A5", "U+03A6", "U+03A7",
         "U+03A8", "U+03A9", "U+03AA", "U+03AB", "U+03AC", "U+03AD", "U+03AE",
         "U+03AF", "U+03B0", "U+03B1", "U+03B2", "U+03B3", "U+03B4", "U+03B5",
         "U+03B6", "U+03B7", "U+03B8", "U+03B9", "U+03BA", "U+03BB", "U+03BC",
         "U+03BD", "U+03BE", "U+03BF", "U+03C0", "U+03C1", "U+03C2", "U+03C3",
         "U+03C4", "U+03C5", "U+03C6", "U+03C7", "U+03C8", "U+03C9", "U+03CA",
         "U+03CB", "U+03CC", "U+03CD", "U+03CE", "U+03CF", "U+03D0", "U+03D1",
         "U+03D2", "U+03D3", "U+03D4", "U+03D5", "U+03D6", "U+03D7", "U+03D8",
         "U+03D9", "U+03DA", "U+03DB", "U+03DC", "U+03DD", "U+03DE", "U+03DF",
         "U+03E0", "U+03E1", "U+03E2", "U+03E3", "U+03E4", "U+03E5", "U+03E6",
         "U+03E7", "U+03E8", "U+03E9", "U+03EA", "U+03EB", "U+03EC", "U+03ED",
         "U+03EE", "U+03EF", "U+03F0", "U+03F1", "U+03F2", "U+03F3", "U+03F4",
         "U+03F5", "U+03F7", "U+03F8", "U+03F9", "U+03FA", "U+03FB", "U+03FC",
         "U+03FD", "U+03FE", "U+03FF", "U+0400", "U+0401", "U+0402", "U+0403",
         "U+0404", "U+0405", "U+0406", "U+0407", "U+0408", "U+0409", "U+040A",
         "U+040B", "U+040C", "U+040D", "U+040E", "U+040F", "U+0410", "U+0411",
         "U+0412", "U+0413", "U+0414", "U+0415", "U+0416", "U+0417", "U+0418",
         "U+0419", "U+041A", "U+041B", "U+041C", "U+041D", "U+041E", "U+041F",
         "U+0420", "U+0421", "U+0422", "U+0423", "U+0424", "U+0425", "U+0426",
         "U+0427", "U+0428", "U+0429", "U+042A", "U+042B", "U+042C", "U+042D",
         "U+042E", "U+042F", "U+0430", "U+0431", "U+0432", "U+0433", "U+0434",
         "U+0435", "U+0436", "U+0437", "U+0438", "U+0439", "U+043A", "U+043B",
         "U+043C", "U+043D", "U+043E", "U+043F", "U+0440", "U+0441", "U+0442",
         "U+0443", "U+0444", "U+0445", "U+0446", "U+0447", "U+0448", "U+0449",
         "U+044A", "U+044B", "U+044C", "U+044D", "U+044E", "U+044F", "U+0450",
         "U+0451", "U+0452", "U+0453", "U+0454", "U+0455", "U+0456", "U+0457",
         "U+0458", "U+0459", "U+045A", "U+045B", "U+045C", "U+045D", "U+045E",
         "U+045F", "U+0460", "U+0461", "U+0462", "U+0463", "U+0464", "U+0465",
         "U+0466", "U+0467", "U+0468", "U+0469", "U+046A", "U+046B", "U+046C",
         "U+046D", "U+046E", "U+046F", "U+0470", "U+0471", "U+0472", "U+0473",
         "U+0474", "U+0475", "U+0476", "U+0477", "U+0478", "U+0479", "U+047A",
         "U+047B", "U+047C", "U+047D", "U+047E", "U+047F", "U+0480", "U+0481",
         "U+048A", "U+048B", "U+048C", "U+048D", "U+048E", "U+048F", "U+0490",
         "U+0491", "U+0492", "U+0493", "U+0494", "U+0495", "U+0496", "U+0497",
         "U+0498", "U+0499", "U+049A", "U+049B", "U+049C", "U+049D", "U+049E",
         "U+049F", "U+04A0", "U+04A1", "U+04A2", "U+04A3", "U+04A4", "U+04A5",
         "U+04A6", "U+04A7", "U+04A8", "U+04A9", "U+04AA", "U+04AB", "U+04AC",
         "U+04AD", "U+04AE", "U+04AF", "U+04B0", "U+04B1", "U+04B2", "U+04B3",
         "U+04B4", "U+04B5", "U+04B6", "U+04B7", "U+04B8", "U+04B9", "U+04BA",
         "U+04BB", "U+04BC", "U+04BD", "U+04BE", "U+04BF", "U+04C0", "U+04C1",
         "U+04C2", "U+04C3", "U+04C4", "U+04C5", "U+04C6", "U+04C7", "U+04C8",
         "U+04C9", "U+04CA", "U+04CB", "U+04CC", "U+04CD", "U+04CE", "U+04CF",
         "U+04D0", "U+04D1", "U+04D2", "U+04D3", "U+04D4", "U+04D5", "U+04D6",
         "U+04D7", "U+04D8", "U+04D9", "U+04DA", "U+04DB", "U+04DC", "U+04DD",
         "U+04DE", "U+04DF", "U+04E0", "U+04E1", "U+04E2", "U+04E3", "U+04E4",
         "U+04E5", "U+04E6", "U+04E7", "U+04E8", "U+04E9", "U+04EA", "U+04EB",
         "U+04EC", "U+04ED", "U+04EE", "U+04EF", "U+04F0", "U+04F1", "U+04F2",
         "U+04F3", "U+04F4", "U+04F5", "U+04F6", "U+04F7", "U+04F8", "U+04F9",
         "U+04FA", "U+04FB", "U+04FC", "U+04FD", "U+04FE", "U+04FF", "U+0500",
         "U+0501", "U+0502", "U+0503", "U+0504", "U+0505", "U+0506", "U+0507",
         "U+0508", "U+0509", "U+050A", "U+050B", "U+050C", "U+050D", "U+050E",
         "U+050F", "U+0510", "U+0511", "U+0512", "U+0513", "U+0514", "U+0515",
         "U+0516", "U+0517", "U+0518", "U+0519", "U+051A", "U+051B", "U+051C",
         "U+051D", "U+051E", "U+051F", "U+0520", "U+0521", "U+0522", "U+0523",
         "U+0524", "U+0525", "U+0526", "U+0527", "U+0528", "U+0529", "U+052A",
         "U+052B", "U+052C", "U+052D", "U+052E", "U+052F", "U+0531", "U+0532",
         "U+0533", "U+0534", "U+0535", "U+0536", "U+0537", "U+0538", "U+0539",
         "U+053A", "U+053B", "U+053C", "U+053D", "U+053E", "U+053F", "U+0540",
         "U+0541", "U+0542", "U+0543", "U+0544", "U+0545", "U+0546", "U+0547",
         "U+0548", "U+0549", "U+054A", "U+054B", "U+054C", "U+054D", "U+054E",
         "U+054F", "U+0550", "U+0551", "U+0552", "U+0553", "U+0554", "U+0555",
         "U+0556", "U+0560", "U+0561", "U+0562", "U+0563", "U+0564", "U+0565",
         "U+0566", "U+0567", "U+0568", "U+0569", "U+056A", "U+056B", "U+056C",
         "U+056D", "U+056E", "U+056F", "U+0570", "U+0571", "U+0572", "U+0573",
         "U+0574", "U+0575", "U+0576", "U+0577", "U+0578", "U+0579", "U+057A",
         "U+057B", "U+057C", "U+057D", "U+057E", "U+057F", "U+0580", "U+0581",
         "U+0582", "U+0583", "U+0584", "U+0585", "U+0586", "U+0587", "U+0588",
         "U+10A0", "U+10A1", "U+10A2", "U+10A3", "U+10A4", "U+10A5", "U+10A6",
         "U+10A7", "U+10A8", "U+10A9", "U+10AA", "U+10AB", "U+10AC", "U+10AD",
         "U+10AE", "U+10AF", "U+10B0", "U+10B1", "U+10B2", "U+10B3", "U+10B4",
         "U+10B5", "U+10B6", "U+10B7", "U+10B8", "U+10B9", "U+10BA", "U+10BB",
         "U+10BC", "U+10BD", "U+10BE", "U+10BF", "U+10C0", "U+10C1", "U+10C2",
         "U+10C3", "U+10C4", "U+10C5", "U+10C7", "U+10CD", "U+10D0", "U+10D1",
         "U+10D2", "U+10D3", "U+10D4", "U+10D5", "U+10D6", "U+10D7", "U+10D8",
         "U+10D9", "U+10DA", "U+10DB", "U+10DC", "U+10DD", "U+10DE", "U+10DF",
         "U+10E0", "U+10E1", "U+10E2", "U+10E3", "U+10E4", "U+10E5", "U+10E6",
         "U+10E7", "U+10E8", "U+10E9", "U+10EA", "U+10EB", "U+10EC", "U+10ED",
         "U+10EE", "U+10EF", "U+10F0", "U+10F1", "U+10F2", "U+10F3", "U+10F4",
         "U+10F5", "U+10F6", "U+10F7", "U+10F8", "U+10F9", "U+10FA", "U+10FD",
         "U+10FE", "U+10FF", "U+13A0", "U+13A1", "U+13A2", "U+13A3", "U+13A4",
         "U+13A5", "U+13A6", "U+13A7", "U+13A8", "U+13A9", "U+13AA", "U+13AB",
         "U+13AC", "U+13AD", "U+13AE", "U+13AF", "U+13B0", "U+13B1", "U+13B2",
         "U+13B3", "U+13B4", "U+13B5", "U+13B6", "U+13B7", "U+13B8", "U+13B9",
         "U+13BA", "U+13BB", "U+13BC", "U+13BD", "U+13BE", "U+13BF", "U+13C0",
         "U+13C1", "U+13C2", "U+13C3", "U+13C4", "U+13C5", "U+13C6", "U+13C7",
         "U+13C8", "U+13C9", "U+13CA", "U+13CB", "U+13CC", "U+13CD", "U+13CE",
         "U+13CF", "U+13D0", "U+13D1", "U+13D2", "U+13D3", "U+13D4", "U+13D5",
         "U+13D6", "U+13D7", "U+13D8", "U+13D9", "U+13DA", "U+13DB", "U+13DC",
         "U+13DD", "U+13DE", "U+13DF", "U+13E0", "U+13E1", "U+13E2", "U+13E3",
         "U+13E4", "U+13E5", "U+13E6", "U+13E7", "U+13E8", "U+13E9", "U+13EA",
         "U+13EB", "U+13EC", "U+13ED", "U+13EE", "U+13EF", "U+13F0", "U+13F1",
         "U+13F2", "U+13F3", "U+13F4", "U+13F5", "U+13F8", "U+13F9", "U+13FA",
         "U+13FB", "U+13FC", "U+13FD", "U+1C80", "U+1C81", "U+1C82", "U+1C83",
         "U+1C84", "U+1C85", "U+1C86", "U+1C87", "U+1C88", "U+1C90", "U+1C91",
         "U+1C92", "U+1C93", "U+1C94", "U+1C95", "U+1C96", "U+1C97", "U+1C98",
         "U+1C99", "U+1C9A", "U+1C9B", "U+1C9C", "U+1C9D", "U+1C9E", "U+1C9F",
         "U+1CA0", "U+1CA1", "U+1CA2", "U+1CA3", "U+1CA4", "U+1CA5", "U+1CA6",
         "U+1CA7", "U+1CA8", "U+1CA9", "U+1CAA", "U+1CAB", "U+1CAC", "U+1CAD",
         "U+1CAE", "U+1CAF", "U+1CB0", "U+1CB1", "U+1CB2", "U+1CB3", "U+1CB4",
         "U+1CB5", "U+1CB6", "U+1CB7", "U+1CB8", "U+1CB9", "U+1CBA", "U+1CBD",
         "U+1CBE", "U+1CBF", "U+1D00", "U+1D01", "U+1D02", "U+1D03", "U+1D04",
         "U+1D05", "U+1D06", "U+1D07", "U+1D08", "U+1D09", "U+1D0A", "U+1D0B",
         "U+1D0C", "U+1D0D", "U+1D0E", "U+1D0F", "U+1D10", "U+1D11", "U+1D12",
         "U+1D13", "U+1D14", "U+1D15", "U+1D16", "U+1D17", "U+1D18", "U+1D19",
         "U+1D1A", "U+1D1B", "U+1D1C", "U+1D1D", "U+1D1E", "U+1D1F", "U+1D20",
         "U+1D21", "U+1D22", "U+1D23", "U+1D24", "U+1D25", "U+1D26", "U+1D27",
         "U+1D28", "U+1D29", "U+1D2A", "U+1D2B", "U+1D6B", "U+1D6C", "U+1D6D",
         "U+1D6E", "U+1D6F", "U+1D70", "U+1D71", "U+1D72", "U+1D73", "U+1D74",
         "U+1D75", "U+1D76", "U+1D77", "U+1D79", "U+1D7A", "U+1D7B", "U+1D7C",
         "U+1D7D", "U+1D7E", "U+1D7F", "U+1D80", "U+1D81", "U+1D82", "U+1D83",
         "U+1D84", "U+1D85", "U+1D86", "U+1D87", "U+1D88", "U+1D89", "U+1D8A",
         "U+1D8B", "U+1D8C", "U+1D8D", "U+1D8E", "U+1D8F", "U+1D90", "U+1D91",
         "U+1D92", "U+1D93", "U+1D94", "U+1D95", "U+1D96", "U+1D97", "U+1D98",
         "U+1D99", "U+1D9A", "U+1E00", "U+1E01", "U+1E02", "U+1E03", "U+1E04",
         "U+1E05", "U+1E06", "U+1E07", "U+1E08", "U+1E09", "U+1E0A", "U+1E0B",
         "U+1E0C", "U+1E0D", "U+1E0E", "U+1E0F", "U+1E10", "U+1E11", "U+1E12",
         "U+1E13", "U+1E14", "U+1E15", "U+1E16", "U+1E17", "U+1E18", "U+1E19",
         "U+1E1A", "U+1E1B", "U+1E1C", "U+1E1D", "U+1E1E", "U+1E1F", "U+1E20",
         "U+1E21", "U+1E22", "U+1E23", "U+1E24", "U+1E25", "U+1E26", "U+1E27",
         "U+1E28", "U+1E29", "U+1E2A", "U+1E2B", "U+1E2C", "U+1E2D", "U+1E2E",
         "U+1E2F", "U+1E30", "U+1E31", "U+1E32", "U+1E33", "U+1E34", "U+1E35",
         "U+1E36", "U+1E37", "U+1E38", "U+1E39", "U+1E3A", "U+1E3B", "U+1E3C",
         "U+1E3D", "U+1E3E", "U+1E3F", "U+1E40", "U+1E41", "U+1E42", "U+1E43",
         "U+1E44", "U+1E45", "U+1E46", "U+1E47", "U+1E48", "U+1E49", "U+1E4A",
         "U+1E4B", "U+1E4C", "U+1E4D", "U+1E4E", "U+1E4F", "U+1E50", "U+1E51",
         "U+1E52", "U+1E53", "U+1E54", "U+1E55", "U+1E56", "U+1E57", "U+1E58",
         "U+1E59", "U+1E5A", "U+1E5B", "U+1E5C", "U+1E5D", "U+1E5E", "U+1E5F",
         "U+1E60", "U+1E61", "U+1E62", "U+1E63", "U+1E64", "U+1E65", "U+1E66",
         "U+1E67", "U+1E68", "U+1E69", "U+1E6A", "U+1E6B", "U+1E6C", "U+1E6D",
         "U+1E6E", "U+1E6F", "U+1E70", "U+1E71", "U+1E72", "U+1E73", "U+1E74",
         "U+1E75", "U+1E76", "U+1E77", "U+1E78", "U+1E79", "U+1E7A", "U+1E7B",
         "U+1E7C", "U+1E7D", "U+1E7E", "U+1E7F", "U+1E80", "U+1E81", "U+1E82",
         "U+1E83", "U+1E84", "U+1E85", "U+1E86", "U+1E87", "U+1E88", "U+1E89",
         "U+1E8A", "U+1E8B", "U+1E8C", "U+1E8D", "U+1E8E", "U+1E8F", "U+1E90",
         "U+1E91", "U+1E92", "U+1E93", "U+1E94", "U+1E95", "U+1E96", "U+1E97",
         "U+1E98", "U+1E99", "U+1E9A", "U+1E9B", "U+1E9C", "U+1E9D", "U+1E9E",
         "U+1E9F", "U+1EA0", "U+1EA1", "U+1EA2", "U+1EA3", "U+1EA4", "U+1EA5",
         "U+1EA6", "U+1EA7", "U+1EA8", "U+1EA9", "U+1EAA", "U+1EAB", "U+1EAC",
         "U+1EAD", "U+1EAE", "U+1EAF", "U+1EB0", "U+1EB1", "U+1EB2", "U+1EB3",
         "U+1EB4", "U+1EB5", "U+1EB6", "U+1EB7", "U+1EB8", "U+1EB9", "U+1EBA",
         "U+1EBB", "U+1EBC", "U+1EBD", "U+1EBE", "U+1EBF", "U+1EC0", "U+1EC1",
         "U+1EC2", "U+1EC3", "U+1EC4", "U+1EC5", "U+1EC6", "U+1EC7", "U+1EC8",
         "U+1EC9", "U+1ECA", "U+1ECB", "U+1ECC", "U+1ECD", "U+1ECE", "U+1ECF",
         "U+1ED0", "U+1ED1", "U+1ED2", "U+1ED3", "U+1ED4", "U+1ED5", "U+1ED6",
         "U+1ED7", "U+1ED8", "U+1ED9", "U+1EDA", "U+1EDB", "U+1EDC", "U+1EDD",
         "U+1EDE", "U+1EDF", "U+1EE0", "U+1EE1", "U+1EE2", "U+1EE3", "U+1EE4",
         "U+1EE5", "U+1EE6", "U+1EE7", "U+1EE8", "U+1EE9", "U+1EEA", "U+1EEB",
         "U+1EEC", "U+1EED", "U+1EEE", "U+1EEF", "U+1EF0", "U+1EF1", "U+1EF2",
         "U+1EF3", "U+1EF4", "U+1EF5", "U+1EF6", "U+1EF7", "U+1EF8", "U+1EF9",
         "U+1EFA", "U+1EFB", "U+1EFC", "U+1EFD", "U+1EFE", "U+1EFF", "U+1F00",
         "U+1F01", "U+1F02", "U+1F03", "U+1F04", "U+1F05", "U+1F06", "U+1F07",
         "U+1F08", "U+1F09", "U+1F0A", "U+1F0B", "U+1F0C", "U+1F0D", "U+1F0E",
         "U+1F0F", "U+1F10", "U+1F11", "U+1F12", "U+1F13", "U+1F14", "U+1F15",
         "U+1F18", "U+1F19", "U+1F1A", "U+1F1B", "U+1F1C", "U+1F1D", "U+1F20",
         "U+1F21", "U+1F22", "U+1F23", "U+1F24", "U+1F25", "U+1F26", "U+1F27",
         "U+1F28", "U+1F29", "U+1F2A", "U+1F2B", "U+1F2C", "U+1F2D", "U+1F2E",
         "U+1F2F", "U+1F30", "U+1F31", "U+1F32", "U+1F33", "U+1F34", "U+1F35",
         "U+1F36", "U+1F37", "U+1F38", "U+1F39", "U+1F3A", "U+1F3B", "U+1F3C",
         "U+1F3D", "U+1F3E", "U+1F3F", "U+1F40", "U+1F41", "U+1F42", "U+1F43",
         "U+1F44", "U+1F45", "U+1F48", "U+1F49", "U+1F4A", "U+1F4B", "U+1F4C",
         "U+1F4D", "U+1F50", "U+1F51", "U+1F52", "U+1F53", "U+1F54", "U+1F55",
         "U+1F56", "U+1F57", "U+1F59", "U+1F5B", "U+1F5D", "U+1F5F", "U+1F60",
         "U+1F61", "U+1F62", "U+1F63", "U+1F64", "U+1F65", "U+1F66", "U+1F67",
         "U+1F68", "U+1F69", "U+1F6A", "U+1F6B", "U+1F6C", "U+1F6D", "U+1F6E",
         "U+1F6F", "U+1F70", "U+1F71", "U+1F72", "U+1F73", "U+1F74", "U+1F75",
         "U+1F76", "U+1F77", "U+1F78", "U+1F79", "U+1F7A", "U+1F7B", "U+1F7C",
         "U+1F7D", "U+1F80", "U+1F81", "U+1F82", "U+1F83", "U+1F84", "U+1F85",
         "U+1F86", "U+1F87", "U+1F88", "U+1F89", "U+1F8A", "U+1F8B", "U+1F8C",
         "U+1F8D", "U+1F8E", "U+1F8F", "U+1F90", "U+1F91", "U+1F92", "U+1F93",
         "U+1F94", "U+1F95", "U+1F96", "U+1F97", "U+1F98", "U+1F99", "U+1F9A",
         "U+1F9B", "U+1F9C", "U+1F9D", "U+1F9E", "U+1F9F", "U+1FA0", "U+1FA1",
         "U+1FA2", "U+1FA3", "U+1FA4", "U+1FA5", "U+1FA6", "U+1FA7", "U+1FA8",
         "U+1FA9", "U+1FAA", "U+1FAB", "U+1FAC", "U+1FAD", "U+1FAE", "U+1FAF",
         "U+1FB0", "U+1FB1", "U+1FB2", "U+1FB3", "U+1FB4", "U+1FB6", "U+1FB7",
         "U+1FB8", "U+1FB9", "U+1FBA", "U+1FBB", "U+1FBC", "U+1FBE", "U+1FC2",
         "U+1FC3", "U+1FC4", "U+1FC6", "U+1FC7", "U+1FC8", "U+1FC9", "U+1FCA",
         "U+1FCB", "U+1FCC", "U+1FD0", "U+1FD1", "U+1FD2", "U+1FD3", "U+1FD6",
         "U+1FD7", "U+1FD8", "U+1FD9", "U+1FDA", "U+1FDB", "U+1FE0", "U+1FE1",
         "U+1FE2", "U+1FE3", "U+1FE4", "U+1FE5", "U+1FE6", "U+1FE7", "U+1FE8",
         "U+1FE9", "U+1FEA", "U+1FEB", "U+1FEC", "U+1FF2", "U+1FF3", "U+1FF4",
         "U+1FF6", "U+1FF7", "U+1FF8", "U+1FF9", "U+1FFA", "U+1FFB", "U+1FFC",
         "U+2102", "U+2107", "U+210A", "U+210B", "U+210C", "U+210D", "U+210E",
         "U+210F", "U+2110", "U+2111", "U+2112", "U+2113", "U+2115", "U+2119",
         "U+211A", "U+211B", "U+211C", "U+211D", "U+2124", "U+2126", "U+2128",
         "U+212A", "U+212B", "U+212C", "U+212D", "U+212F", "U+2130", "U+2131",
         "U+2132", "U+2133", "U+2134", "U+2139", "U+213C", "U+213D", "U+213E",
         "U+213F", "U+2145", "U+2146", "U+2147", "U+2148", "U+2149", "U+214E",
         "U+2160", "U+2161", "U+2162", "U+2163", "U+2164", "U+2165", "U+2166",
         "U+2167", "U+2168", "U+2169", "U+216A", "U+216B", "U+216C", "U+216D",
         "U+216E", "U+216F", "U+2170", "U+2171", "U+2172", "U+2173", "U+2174",
         "U+2175", "U+2176", "U+2177", "U+2178", "U+2179", "U+217A", "U+217B",
         "U+217C", "U+217D", "U+217E", "U+217F", "U+2183", "U+2184", "U+24B6",
         "U+24B7", "U+24B8", "U+24B9", "U+24BA", "U+24BB", "U+24BC", "U+24BD",
         "U+24BE", "U+24BF", "U+24C0", "U+24C1", "U+24C2", "U+24C3", "U+24C4",
         "U+24C5", "U+24C6", "U+24C7", "U+24C8", "U+24C9", "U+24CA", "U+24CB",
         "U+24CC", "U+24CD", "U+24CE", "U+24CF", "U+24D0", "U+24D1", "U+24D2",
         "U+24D3", "U+24D4", "U+24D5", "U+24D6", "U+24D7", "U+24D8", "U+24D9",
         "U+24DA", "U+24DB", "U+24DC", "U+24DD", "U+24DE", "U+24DF", "U+24E0",
         "U+24E1", "U+24E2", "U+24E3", "U+24E4", "U+24E5", "U+24E6", "U+24E7",
         "U+24E8", "U+24E9", "U+2C00", "U+2C01", "U+2C02", "U+2C03", "U+2C04",
         "U+2C05", "U+2C06", "U+2C07", "U+2C08", "U+2C09", "U+2C0A", "U+2C0B",
         "U+2C0C", "U+2C0D", "U+2C0E", "U+2C0F", "U+2C10", "U+2C11", "U+2C12",
         "U+2C13", "U+2C14", "U+2C15", "U+2C16", "U+2C17", "U+2C18", "U+2C19",
         "U+2C1A", "U+2C1B", "U+2C1C", "U+2C1D", "U+2C1E", "U+2C1F", "U+2C20",
         "U+2C21", "U+2C22", "U+2C23", "U+2C24", "U+2C25", "U+2C26", "U+2C27",
         "U+2C28", "U+2C29", "U+2C2A", "U+2C2B", "U+2C2C", "U+2C2D", "U+2C2E",
         "U+2C2F", "U+2C30", "U+2C31", "U+2C32", "U+2C33", "U+2C34", "U+2C35",
         "U+2C36", "U+2C37", "U+2C38", "U+2C39", "U+2C3A", "U+2C3B", "U+2C3C",
         "U+2C3D", "U+2C3E", "U+2C3F", "U+2C40", "U+2C41", "U+2C42", "U+2C43",
         "U+2C44", "U+2C45", "U+2C46", "U+2C47", "U+2C48", "U+2C49", "U+2C4A",
         "U+2C4B", "U+2C4C", "U+2C4D", "U+2C4E", "U+2C4F", "U+2C50", "U+2C51",
         "U+2C52", "U+2C53", "U+2C54", "U+2C55", "U+2C56", "U+2C57", "U+2C58",
         "U+2C59", "U+2C5A", "U+2C5B", "U+2C5C", "U+2C5D", "U+2C5E", "U+2C5F",
         "U+2C60", "U+2C61", "U+2C62", "U+2C63", "U+2C64", "U+2C65", "U+2C66",
         "U+2C67", "U+2C68", "U+2C69", "U+2C6A", "U+2C6B", "U+2C6C", "U+2C6D",
         "U+2C6E", "U+2C6F", "U+2C70", "U+2C71", "U+2C72", "U+2C73", "U+2C74",
         "U+2C75", "U+2C76", "U+2C77", "U+2C78", "U+2C79", "U+2C7A", "U+2C7B",
         "U+2C7E", "U+2C7F", "U+2C80", "U+2C81", "U+2C82", "U+2C83", "U+2C84",
         "U+2C85", "U+2C86", "U+2C87", "U+2C88", "U+2C89", "U+2C8A", "U+2C8B",
         "U+2C8C", "U+2C8D", "U+2C8E", "U+2C8F", "U+2C90", "U+2C91", "U+2C92",
         "U+2C93", "U+2C94", "U+2C95", "U+2C96", "U+2C97", "U+2C98", "U+2C99",
         "U+2C9A", "U+2C9B", "U+2C9C", "U+2C9D", "U+2C9E", "U+2C9F", "U+2CA0",
         "U+2CA1", "U+2CA2", "U+2CA3", "U+2CA4", "U+2CA5", "U+2CA6", "U+2CA7",
         "U+2CA8", "U+2CA9", "U+2CAA", "U+2CAB", "U+2CAC", "U+2CAD", "U+2CAE",
         "U+2CAF", "U+2CB0", "U+2CB1", "U+2CB2", "U+2CB3", "U+2CB4", "U+2CB5",
         "U+2CB6", "U+2CB7", "U+2CB8", "U+2CB9", "U+2CBA", "U+2CBB", "U+2CBC",
         "U+2CBD", "U+2CBE", "U+2CBF", "U+2CC0", "U+2CC1", "U+2CC2", "U+2CC3",
         "U+2CC4", "U+2CC5", "U+2CC6", "U+2CC7", "U+2CC8", "U+2CC9", "U+2CCA",
         "U+2CCB", "U+2CCC", "U+2CCD", "U+2CCE", "U+2CCF", "U+2CD0", "U+2CD1",
         "U+2CD2", "U+2CD3", "U+2CD4", "U+2CD5", "U+2CD6", "U+2CD7", "U+2CD8",
         "U+2CD9", "U+2CDA", "U+2CDB", "U+2CDC", "U+2CDD", "U+2CDE", "U+2CDF",
         "U+2CE0", "U+2CE1", "U+2CE2", "U+2CE3", "U+2CE4", "U+2CEB", "U+2CEC",
         "U+2CED", "U+2CEE", "U+2CF2", "U+2CF3", "U+2D00", "U+2D01", "U+2D02",
         "U+2D03", "U+2D04", "U+2D05", "U+2D06", "U+2D07", "U+2D08", "U+2D09",
         "U+2D0A", "U+2D0B", "U+2D0C", "U+2D0D", "U+2D0E", "U+2D0F", "U+2D10",
         "U+2D11", "U+2D12", "U+2D13", "U+2D14", "U+2D15", "U+2D16", "U+2D17",
         "U+2D18", "U+2D19", "U+2D1A", "U+2D1B", "U+2D1C", "U+2D1D", "U+2D1E",
         "U+2D1F", "U+2D20", "U+2D21", "U+2D22", "U+2D23", "U+2D24", "U+2D25",
         "U+2D27", "U+2D2D", "U+A640", "U+A641", "U+A642", "U+A643", "U+A644",
         "U+A645", "U+A646", "U+A647", "U+A648", "U+A649", "U+A64A", "U+A64B",
         "U+A64C", "U+A64D", "U+A64E", "U+A64F", "U+A650", "U+A651", "U+A652",
         "U+A653", "U+A654", "U+A655", "U+A656", "U+A657", "U+A658", "U+A659",
         "U+A65A", "U+A65B", "U+A65C", "U+A65D", "U+A65E", "U+A65F", "U+A660",
         "U+A661", "U+A662", "U+A663", "U+A664", "U+A665", "U+A666", "U+A667",
         "U+A668", "U+A669", "U+A66A", "U+A66B", "U+A66C", "U+A66D", "U+A680",
         "U+A681", "U+A682", "U+A683", "U+A684", "U+A685", "U+A686", "U+A687",
         "U+A688", "U+A689", "U+A68A", "U+A68B", "U+A68C", "U+A68D", "U+A68E",
         "U+A68F", "U+A690", "U+A691", "U+A692", "U+A693", "U+A694", "U+A695",
         "U+A696", "U+A697", "U+A698", "U+A699", "U+A69A", "U+A69B", "U+A722",
         "U+A723", "U+A724", "U+A725", "U+A726", "U+A727", "U+A728", "U+A729",
         "U+A72A", "U+A72B", "U+A72C", "U+A72D", "U+A72E", "U+A72F", "U+A730",
         "U+A731", "U+A732", "U+A733", "U+A734", "U+A735", "U+A736", "U+A737",
         "U+A738", "U+A739", "U+A73A", "U+A73B", "U+A73C", "U+A73D", "U+A73E",
         "U+A73F", "U+A740", "U+A741", "U+A742", "U+A743", "U+A744", "U+A745",
         "U+A746", "U+A747", "U+A748", "U+A749", "U+A74A", "U+A74B", "U+A74C",
         "U+A74D", "U+A74E", "U+A74F", "U+A750", "U+A751", "U+A752", "U+A753",
         "U+A754", "U+A755", "U+A756", "U+A757", "U+A758", "U+A759", "U+A75A",
         "U+A75B", "U+A75C", "U+A75D", "U+A75E", "U+A75F", "U+A760", "U+A761",
         "U+A762", "U+A763", "U+A764", "U+A765", "U+A766", "U+A767", "U+A768",
         "U+A769", "U+A76A", "U+A76B", "U+A76C", "U+A76D", "U+A76E", "U+A76F",
         "U+A771", "U+A772", "U+A773", "U+A774", "U+A775", "U+A776", "U+A777",
         "U+A778", "U+A779", "U+A77A", "U+A77B", "U+A77C", "U+A77D", "U+A77E",
         "U+A77F", "U+A780", "U+A781", "U+A782", "U+A783", "U+A784", "U+A785",
         "U+A786", "U+A787", "U+A78B", "U+A78C", "U+A78D", "U+A78E", "U+A790",
         "U+A791", "U+A792", "U+A793", "U+A794", "U+A795", "U+A796", "U+A797",
         "U+A798", "U+A799", "U+A79A", "U+A79B", "U+A79C", "U+A79D", "U+A79E",
         "U+A79F", "U+A7A0", "U+A7A1", "U+A7A2", "U+A7A3", "U+A7A4", "U+A7A5",
         "U+A7A6", "U+A7A7", "U+A7A8", "U+A7A9", "U+A7AA", "U+A7AB", "U+A7AC",
         "U+A7AD", "U+A7AE", "U+A7AF", "U+A7B0", "U+A7B1", "U+A7B2", "U+A7B3",
         "U+A7B4", "U+A7B5", "U+A7B6", "U+A7B7", "U+A7B8", "U+A7B9", "U+A7BA",
         "U+A7BB", "U+A7BC", "U+A7BD", "U+A7BE", "U+A7BF", "U+A7C0", "U+A7C1",
         "U+A7C2", "U+A7C3", "U+A7C4", "U+A7C5", "U+A7C6", "U+A7C7", "U+A7C8",
         "U+A7C9", "U+A7CA", "U+A7D0", "U+A7D1", "U+A7D3", "U+A7D5", "U+A7D6",
         "U+A7D7", "U+A7D8", "U+A7D9", "U+A7F5", "U+A7F6", "U+A7FA", "U+AB30",
         "U+AB31", "U+AB32", "U+AB33", "U+AB34", "U+AB35", "U+AB36", "U+AB37",
         "U+AB38", "U+AB39", "U+AB3A", "U+AB3B", "U+AB3C", "U+AB3D", "U+AB3E",
         "U+AB3F", "U+AB40", "U+AB41", "U+AB42", "U+AB43", "U+AB44", "U+AB45",
         "U+AB46", "U+AB47", "U+AB48", "U+AB49", "U+AB4A", "U+AB4B", "U+AB4C",
         "U+AB4D", "U+AB4E", "U+AB4F", "U+AB50", "U+AB51", "U+AB52", "U+AB53",
         "U+AB54", "U+AB55", "U+AB56", "U+AB57", "U+AB58", "U+AB59", "U+AB5A",
         "U+AB60", "U+AB61", "U+AB62", "U+AB63", "U+AB64", "U+AB65", "U+AB66",
         "U+AB67", "U+AB68", "U+AB70", "U+AB71", "U+AB72", "U+AB73", "U+AB74",
         "U+AB75", "U+AB76", "U+AB77", "U+AB78", "U+AB79", "U+AB7A", "U+AB7B",
         "U+AB7C", "U+AB7D", "U+AB7E", "U+AB7F", "U+AB80", "U+AB81", "U+AB82",
         "U+AB83", "U+AB84", "U+AB85", "U+AB86", "U+AB87", "U+AB88", "U+AB89",
         "U+AB8A", "U+AB8B", "U+AB8C", "U+AB8D", "U+AB8E", "U+AB8F", "U+AB90",
         "U+AB91", "U+AB92", "U+AB93", "U+AB94", "U+AB95", "U+AB96", "U+AB97",
         "U+AB98", "U+AB99", "U+AB9A", "U+AB9B", "U+AB9C", "U+AB9D", "U+AB9E",
         "U+AB9F", "U+ABA0", "U+ABA1", "U+ABA2", "U+ABA3", "U+ABA4", "U+ABA5",
         "U+ABA6", "U+ABA7", "U+ABA8", "U+ABA9", "U+ABAA", "U+ABAB", "U+ABAC",
         "U+ABAD", "U+ABAE", "U+ABAF", "U+ABB0", "U+ABB1", "U+ABB2", "U+ABB3",
         "U+ABB4", "U+ABB5", "U+ABB6", "U+ABB7", "U+ABB8", "U+ABB9", "U+ABBA",
         "U+ABBB", "U+ABBC", "U+ABBD", "U+ABBE", "U+ABBF", "U+FB00", "U+FB01",
         "U+FB02", "U+FB03", "U+FB04", "U+FB05", "U+FB06", "U+FB13", "U+FB14",
         "U+FB15", "U+FB16", "U+FB17", "U+FF21", "U+FF22", "U+FF23", "U+FF24",
         "U+FF25", "U+FF26", "U+FF27", "U+FF28", "U+FF29", "U+FF2A", "U+FF2B",
         "U+FF2C", "U+FF2D", "U+FF2E", "U+FF2F", "U+FF30", "U+FF31", "U+FF32",
         "U+FF33", "U+FF34", "U+FF35", "U+FF36", "U+FF37", "U+FF38", "U+FF39",
         "U+FF3A", "U+FF41", "U+FF42", "U+FF43", "U+FF44", "U+FF45", "U+FF46",
         "U+FF47", "U+FF48", "U+FF49", "U+FF4A", "U+FF4B", "U+FF4C", "U+FF4D",
         "U+FF4E", "U+FF4F", "U+FF50", "U+FF51", "U+FF52", "U+FF53", "U+FF54",
         "U+FF55", "U+FF56", "U+FF57", "U+FF58", "U+FF59", "U+FF5A",
         "U+10400", "U+10401", "U+10402", "U+10403", "U+10404", "U+10405",
         "U+10406", "U+10407", "U+10408", "U+10409", "U+1040A", "U+1040B",
         "U+1040C", "U+1040D", "U+1040E", "U+1040F", "U+10410", "U+10411",
         "U+10412", "U+10413", "U+10414", "U+10415", "U+10416", "U+10417",
         "U+10418", "U+10419", "U+1041A", "U+1041B", "U+1041C", "U+1041D",
         "U+1041E", "U+1041F", "U+10420", "U+10421", "U+10422", "U+10423",
         "U+10424", "U+10425", "U+10426", "U+10427", "U+10428", "U+10429",
         "U+1042A", "U+1042B", "U+1042C", "U+1042D", "U+1042E", "U+1042F",
         "U+10430", "U+10431", "U+10432", "U+10433", "U+10434", "U+10435",
         "U+10436", "U+10437", "U+10438", "U+10439", "U+1043A", "U+1043B",
         "U+1043C", "U+1043D", "U+1043E", "U+1043F", "U+10440", "U+10441",
         "U+10442", "U+10443", "U+10444", "U+10445", "U+10446", "U+10447",
         "U+10448", "U+10449", "U+1044A", "U+1044B", "U+1044C", "U+1044D",
         "U+1044E", "U+1044F", "U+104B0", "U+104B1", "U+104B2", "U+104B3",
         "U+104B4", "U+104B5", "U+104B6", "U+104B7", "U+104B8", "U+104B9",
         "U+104BA", "U+104BB", "U+104BC", "U+104BD", "U+104BE", "U+104BF",
         "U+104C0", "U+104C1", "U+104C2", "U+104C3", "U+104C4", "U+104C5",
         "U+104C6", "U+104C7", "U+104C8", "U+104C9", "U+104CA", "U+104CB",
         "U+104CC", "U+104CD", "U+104CE", "U+104CF", "U+104D0", "U+104D1",
         "U+104D2", "U+104D3", "U+104D8", "U+104D9", "U+104DA", "U+104DB",
         "U+104DC", "U+104DD", "U+104DE", "U+104DF", "U+104E0", "U+104E1",
         "U+104E2", "U+104E3", "U+104E4", "U+104E5", "U+104E6", "U+104E7",
         "U+104E8", "U+104E9", "U+104EA", "U+104EB", "U+104EC", "U+104ED",
         "U+104EE", "U+104EF", "U+104F0", "U+104F1", "U+104F2", "U+104F3",
         "U+104F4", "U+104F5", "U+104F6", "U+104F7", "U+104F8", "U+104F9",
         "U+104FA", "U+104FB", "U+10570", "U+10571", "U+10572", "U+10573",
         "U+10574", "U+10575", "U+10576", "U+10577", "U+10578", "U+10579",
         "U+1057A", "U+1057C", "U+1057D", "U+1057E", "U+1057F", "U+10580",
         "U+10581", "U+10582", "U+10583", "U+10584", "U+10585", "U+10586",
         "U+10587", "U+10588", "U+10589", "U+1058A", "U+1058C", "U+1058D",
         "U+1058E", "U+1058F", "U+10590", "U+10591", "U+10592", "U+10594",
         "U+10595", "U+10597", "U+10598", "U+10599", "U+1059A", "U+1059B",
         "U+1059C", "U+1059D", "U+1059E", "U+1059F", "U+105A0", "U+105A1",
         "U+105A3", "U+105A4", "U+105A5", "U+105A6", "U+105A7", "U+105A8",
         "U+105A9", "U+105AA", "U+105AB", "U+105AC", "U+105AD", "U+105AE",
         "U+105AF", "U+105B0", "U+105B1", "U+105B3", "U+105B4", "U+105B5",
         "U+105B6", "U+105B7", "U+105B8", "U+105B9", "U+105BB", "U+105BC",
         "U+10C80", "U+10C81", "U+10C82", "U+10C83", "U+10C84", "U+10C85",
         "U+10C86", "U+10C87", "U+10C88", "U+10C89", "U+10C8A", "U+10C8B",
         "U+10C8C", "U+10C8D", "U+10C8E", "U+10C8F", "U+10C90", "U+10C91",
         "U+10C92", "U+10C93", "U+10C94", "U+10C95", "U+10C96", "U+10C97",
         "U+10C98", "U+10C99", "U+10C9A", "U+10C9B", "U+10C9C", "U+10C9D",
         "U+10C9E", "U+10C9F", "U+10CA0", "U+10CA1", "U+10CA2", "U+10CA3",
         "U+10CA4", "U+10CA5", "U+10CA6", "U+10CA7", "U+10CA8", "U+10CA9",
         "U+10CAA", "U+10CAB", "U+10CAC", "U+10CAD", "U+10CAE", "U+10CAF",
         "U+10CB0", "U+10CB1", "U+10CB2", "U+10CC0", "U+10CC1", "U+10CC2",
         "U+10CC3", "U+10CC4", "U+10CC5", "U+10CC6", "U+10CC7", "U+10CC8",
         "U+10CC9", "U+10CCA", "U+10CCB", "U+10CCC", "U+10CCD", "U+10CCE",
         "U+10CCF", "U+10CD0", "U+10CD1", "U+10CD2", "U+10CD3", "U+10CD4",
         "U+10CD5", "U+10CD6", "U+10CD7", "U+10CD8", "U+10CD9", "U+10CDA",
         "U+10CDB", "U+10CDC", "U+10CDD", "U+10CDE", "U+10CDF", "U+10CE0",
         "U+10CE1", "U+10CE2", "U+10CE3", "U+10CE4", "U+10CE5", "U+10CE6",
         "U+10CE7", "U+10CE8", "U+10CE9", "U+10CEA", "U+10CEB", "U+10CEC",
         "U+10CED", "U+10CEE", "U+10CEF", "U+10CF0", "U+10CF1", "U+10CF2",
         "U+118A0", "U+118A1", "U+118A2", "U+118A3", "U+118A4", "U+118A5",
         "U+118A6", "U+118A7", "U+118A8", "U+118A9", "U+118AA", "U+118AB",
         "U+118AC", "U+118AD", "U+118AE", "U+118AF", "U+118B0", "U+118B1",
         "U+118B2", "U+118B3", "U+118B4", "U+118B5", "U+118B6", "U+118B7",
         "U+118B8", "U+118B9", "U+118BA", "U+118BB", "U+118BC", "U+118BD",
         "U+118BE", "U+118BF", "U+118C0", "U+118C1", "U+118C2", "U+118C3",
         "U+118C4", "U+118C5", "U+118C6", "U+118C7", "U+118C8", "U+118C9",
         "U+118CA", "U+118CB", "U+118CC", "U+118CD", "U+118CE", "U+118CF",
         "U+118D0", "U+118D1", "U+118D2", "U+118D3", "U+118D4", "U+118D5",
         "U+118D6", "U+118D7", "U+118D8", "U+118D9", "U+118DA", "U+118DB",
         "U+118DC", "U+118DD", "U+118DE", "U+118DF", "U+16E40", "U+16E41",
         "U+16E42", "U+16E43", "U+16E44", "U+16E45", "U+16E46", "U+16E47",
         "U+16E48", "U+16E49", "U+16E4A", "U+16E4B", "U+16E4C", "U+16E4D",
         "U+16E4E", "U+16E4F", "U+16E50", "U+16E51", "U+16E52", "U+16E53",
         "U+16E54", "U+16E55", "U+16E56", "U+16E57", "U+16E58", "U+16E59",
         "U+16E5A", "U+16E5B", "U+16E5C", "U+16E5D", "U+16E5E", "U+16E5F",
         "U+16E60", "U+16E61", "U+16E62", "U+16E63", "U+16E64", "U+16E65",
         "U+16E66", "U+16E67", "U+16E68", "U+16E69", "U+16E6A", "U+16E6B",
         "U+16E6C", "U+16E6D", "U+16E6E", "U+16E6F", "U+16E70", "U+16E71",
         "U+16E72", "U+16E73", "U+16E74", "U+16E75", "U+16E76", "U+16E77",
         "U+16E78", "U+16E79", "U+16E7A", "U+16E7B", "U+16E7C", "U+16E7D",
         "U+16E7E", "U+16E7F", "U+1D400", "U+1D401", "U+1D402", "U+1D403",
         "U+1D404", "U+1D405", "U+1D406", "U+1D407", "U+1D408", "U+1D409",
         "U+1D40A", "U+1D40B", "U+1D40C", "U+1D40D", "U+1D40E", "U+1D40F",
         "U+1D410", "U+1D411", "U+1D412", "U+1D413", "U+1D414", "U+1D415",
         "U+1D416", "U+1D417", "U+1D418", "U+1D419", "U+1D41A", "U+1D41B",
         "U+1D41C", "U+1D41D", "U+1D41E", "U+1D41F", "U+1D420", "U+1D421",
         "U+1D422", "U+1D423", "U+1D424", "U+1D425", "U+1D426", "U+1D427",
         "U+1D428", "U+1D429", "U+1D42A", "U+1D42B", "U+1D42C", "U+1D42D",
         "U+1D42E", "U+1D42F", "U+1D430", "U+1D431", "U+1D432", "U+1D433",
         "U+1D434", "U+1D435", "U+1D436", "U+1D437", "U+1D438", "U+1D439",
         "U+1D43A", "U+1D43B", "U+1D43C", "U+1D43D", "U+1D43E", "U+1D43F",
         "U+1D440", "U+1D441", "U+1D442", "U+1D443", "U+1D444", "U+1D445",
         "U+1D446", "U+1D447", "U+1D448", "U+1D449", "U+1D44A", "U+1D44B",
         "U+1D44C", "U+1D44D", "U+1D44E", "U+1D44F", "U+1D450", "U+1D451",
         "U+1D452", "U+1D453", "U+1D454", "U+1D456", "U+1D457", "U+1D458",
         "U+1D459", "U+1D45A", "U+1D45B", "U+1D45C", "U+1D45D", "U+1D45E",
         "U+1D45F", "U+1D460", "U+1D461", "U+1D462", "U+1D463", "U+1D464",
         "U+1D465", "U+1D466", "U+1D467", "U+1D468", "U+1D469", "U+1D46A",
         "U+1D46B", "U+1D46C", "U+1D46D", "U+1D46E", "U+1D46F", "U+1D470",
         "U+1D471", "U+1D472", "U+1D473", "U+1D474", "U+1D475", "U+1D476",
         "U+1D477", "U+1D478", "U+1D479", "U+1D47A", "U+1D47B", "U+1D47C",
         "U+1D47D", "U+1D47E", "U+1D47F", "U+1D480", "U+1D481", "U+1D482",
         "U+1D483", "U+1D484", "U+1D485", "U+1D486", "U+1D487", "U+1D488",
         "U+1D489", "U+1D48A", "U+1D48B", "U+1D48C", "U+1D48D", "U+1D48E",
         "U+1D48F", "U+1D490", "U+1D491", "U+1D492", "U+1D493", "U+1D494",
         "U+1D495", "U+1D496", "U+1D497", "U+1D498", "U+1D499", "U+1D49A",
         "U+1D49B", "U+1D49C", "U+1D49E", "U+1D49F", "U+1D4A2", "U+1D4A5",
         "U+1D4A6", "U+1D4A9", "U+1D4AA", "U+1D4AB", "U+1D4AC", "U+1D4AE",
         "U+1D4AF", "U+1D4B0", "U+1D4B1", "U+1D4B2", "U+1D4B3", "U+1D4B4",
         "U+1D4B5", "U+1D4B6", "U+1D4B7", "U+1D4B8", "U+1D4B9", "U+1D4BB",
         "U+1D4BD", "U+1D4BE", "U+1D4BF", "U+1D4C0", "U+1D4C1", "U+1D4C2",
         "U+1D4C3", "U+1D4C5", "U+1D4C6", "U+1D4C7", "U+1D4C8", "U+1D4C9",
         "U+1D4CA", "U+1D4CB", "U+1D4CC", "U+1D4CD", "U+1D4CE", "U+1D4CF",
         "U+1D4D0", "U+1D4D1", "U+1D4D2", "U+1D4D3", "U+1D4D4", "U+1D4D5",
         "U+1D4D6", "U+1D4D7", "U+1D4D8", "U+1D4D9", "U+1D4DA", "U+1D4DB",
         "U+1D4DC", "U+1D4DD", "U+1D4DE", "U+1D4DF", "U+1D4E0", "U+1D4E1",
         "U+1D4E2", "U+1D4E3", "U+1D4E4", "U+1D4E5", "U+1D4E6", "U+1D4E7",
         "U+1D4E8", "U+1D4E9", "U+1D4EA", "U+1D4EB", "U+1D4EC", "U+1D4ED",
         "U+1D4EE", "U+1D4EF", "U+1D4F0", "U+1D4F1", "U+1D4F2", "U+1D4F3",
         "U+1D4F4", "U+1D4F5", "U+1D4F6", "U+1D4F7", "U+1D4F8", "U+1D4F9",
         "U+1D4FA", "U+1D4FB", "U+1D4FC", "U+1D4FD", "U+1D4FE", "U+1D4FF",
         "U+1D500", "U+1D501", "U+1D502", "U+1D503", "U+1D504", "U+1D505",
         "U+1D507", "U+1D508", "U+1D509", "U+1D50A", "U+1D50D", "U+1D50E",
         "U+1D50F", "U+1D510", "U+1D511", "U+1D512", "U+1D513", "U+1D514",
         "U+1D516", "U+1D517", "U+1D518", "U+1D519", "U+1D51A", "U+1D51B",
         "U+1D51C", "U+1D51E", "U+1D51F", "U+1D520", "U+1D521", "U+1D522",
         "U+1D523", "U+1D524", "U+1D525", "U+1D526", "U+1D527", "U+1D528",
         "U+1D529", "U+1D52A", "U+1D52B", "U+1D52C", "U+1D52D", "U+1D52E",
         "U+1D52F", "U+1D530", "U+1D531", "U+1D532", "U+1D533", "U+1D534",
         "U+1D535", "U+1D536", "U+1D537", "U+1D538", "U+1D539", "U+1D53B",
         "U+1D53C", "U+1D53D", "U+1D53E", "U+1D540", "U+1D541", "U+1D542",
         "U+1D543", "U+1D544", "U+1D546", "U+1D54A", "U+1D54B", "U+1D54C",
         "U+1D54D", "U+1D54E", "U+1D54F", "U+1D550", "U+1D552", "U+1D553",
         "U+1D554", "U+1D555", "U+1D556", "U+1D557", "U+1D558", "U+1D559",
         "U+1D55A", "U+1D55B", "U+1D55C", "U+1D55D", "U+1D55E", "U+1D55F",
         "U+1D560", "U+1D561", "U+1D562", "U+1D563", "U+1D564", "U+1D565",
         "U+1D566", "U+1D567", "U+1D568", "U+1D569", "U+1D56A", "U+1D56B",
         "U+1D56C", "U+1D56D", "U+1D56E", "U+1D56F", "U+1D570", "U+1D571",
         "U+1D572", "U+1D573", "U+1D574", "U+1D575", "U+1D576", "U+1D577",
         "U+1D578", "U+1D579", "U+1D57A", "U+1D57B", "U+1D57C", "U+1D57D",
         "U+1D57E", "U+1D57F", "U+1D580", "U+1D581", "U+1D582", "U+1D583",
         "U+1D584", "U+1D585", "U+1D586", "U+1D587", "U+1D588", "U+1D589",
         "U+1D58A", "U+1D58B", "U+1D58C", "U+1D58D", "U+1D58E", "U+1D58F",
         "U+1D590", "U+1D591", "U+1D592", "U+1D593", "U+1D594", "U+1D595",
         "U+1D596", "U+1D597", "U+1D598", "U+1D599", "U+1D59A", "U+1D59B",
         "U+1D59C", "U+1D59D", "U+1D59E", "U+1D59F", "U+1D5A0", "U+1D5A1",
         "U+1D5A2", "U+1D5A3", "U+1D5A4", "U+1D5A5", "U+1D5A6", "U+1D5A7",
         "U+1D5A8", "U+1D5A9", "U+1D5AA", "U+1D5AB", "U+1D5AC", "U+1D5AD",
         "U+1D5AE", "U+1D5AF", "U+1D5B0", "U+1D5B1", "U+1D5B2", "U+1D5B3",
         "U+1D5B4", "U+1D5B5", "U+1D5B6", "U+1D5B7", "U+1D5B8", "U+1D5B9",
         "U+1D5BA", "U+1D5BB", "U+1D5BC", "U+1D5BD", "U+1D5BE", "U+1D5BF",
         "U+1D5C0", "U+1D5C1", "U+1D5C2", "U+1D5C3", "U+1D5C4", "U+1D5C5",
         "U+1D5C6", "U+1D5C7", "U+1D5C8", "U+1D5C9", "U+1D5CA", "U+1D5CB",
         "U+1D5CC", "U+1D5CD", "U+1D5CE", "U+1D5CF", "U+1D5D0", "U+1D5D1",
         "U+1D5D2", "U+1D5D3", "U+1D5D4", "U+1D5D5", "U+1D5D6", "U+1D5D7",
         "U+1D5D8", "U+1D5D9", "U+1D5DA", "U+1D5DB", "U+1D5DC", "U+1D5DD",
         "U+1D5DE", "U+1D5DF", "U+1D5E0", "U+1D5E1", "U+1D5E2", "U+1D5E3",
         "U+1D5E4", "U+1D5E5", "U+1D5E6", "U+1D5E7", "U+1D5E8", "U+1D5E9",
         "U+1D5EA", "U+1D5EB", "U+1D5EC", "U+1D5ED", "U+1D5EE", "U+1D5EF",
         "U+1D5F0", "U+1D5F1", "U+1D5F2", "U+1D5F3", "U+1D5F4", "U+1D5F5",
         "U+1D5F6", "U+1D5F7", "U+1D5F8", "U+1D5F9", "U+1D5FA", "U+1D5FB",
         "U+1D5FC", "U+1D5FD", "U+1D5FE", "U+1D5FF", "U+1D600", "U+1D601",
         "U+1D602", "U+1D603", "U+1D604", "U+1D605", "U+1D606", "U+1D607",
         "U+1D608", "U+1D609", "U+1D60A", "U+1D60B", "U+1D60C", "U+1D60D",
         "U+1D60E", "U+1D60F", "U+1D610", "U+1D611", "U+1D612", "U+1D613",
         "U+1D614", "U+1D615", "U+1D616", "U+1D617", "U+1D618", "U+1D619",
         "U+1D61A", "U+1D61B", "U+1D61C", "U+1D61D", "U+1D61E", "U+1D61F",
         "U+1D620", "U+1D621", "U+1D622", "U+1D623", "U+1D624", "U+1D625",
         "U+1D626", "U+1D627", "U+1D628", "U+1D629", "U+1D62A", "U+1D62B",
         "U+1D62C", "U+1D62D", "U+1D62E", "U+1D62F", "U+1D630", "U+1D631",
         "U+1D632", "U+1D633", "U+1D634", "U+1D635", "U+1D636", "U+1D637",
         "U+1D638", "U+1D639", "U+1D63A", "U+1D63B", "U+1D63C", "U+1D63D",
         "U+1D63E", "U+1D63F", "U+1D640", "U+1D641", "U+1D642", "U+1D643",
         "U+1D644", "U+1D645", "U+1D646", "U+1D647", "U+1D648", "U+1D649",
         "U+1D64A", "U+1D64B", "U+1D64C", "U+1D64D", "U+1D64E", "U+1D64F",
         "U+1D650", "U+1D651", "U+1D652", "U+1D653", "U+1D654", "U+1D655",
         "U+1D656", "U+1D657", "U+1D658", "U+1D659", "U+1D65A", "U+1D65B",
         "U+1D65C", "U+1D65D", "U+1D65E", "U+1D65F", "U+1D660", "U+1D661",
         "U+1D662", "U+1D663", "U+1D664", "U+1D665", "U+1D666", "U+1D667",
         "U+1D668", "U+1D669", "U+1D66A", "U+1D66B", "U+1D66C", "U+1D66D",
         "U+1D66E", "U+1D66F", "U+1D670", "U+1D671", "U+1D672", "U+1D673",
         "U+1D674", "U+1D675", "U+1D676", "U+1D677", "U+1D678", "U+1D679",
         "U+1D67A", "U+1D67B", "U+1D67C", "U+1D67D", "U+1D67E", "U+1D67F",
         "U+1D680", "U+1D681", "U+1D682", "U+1D683", "U+1D684", "U+1D685",
         "U+1D686", "U+1D687", "U+1D688", "U+1D689", "U+1D68A", "U+1D68B",
         "U+1D68C", "U+1D68D", "U+1D68E", "U+1D68F", "U+1D690", "U+1D691",
         "U+1D692", "U+1D693", "U+1D694", "U+1D695", "U+1D696", "U+1D697",
         "U+1D698", "U+1D699", "U+1D69A", "U+1D69B", "U+1D69C", "U+1D69D",
         "U+1D69E", "U+1D69F", "U+1D6A0", "U+1D6A1", "U+1D6A2", "U+1D6A3",
         "U+1D6A4", "U+1D6A5", "U+1D6A8", "U+1D6A9", "U+1D6AA", "U+1D6AB",
         "U+1D6AC", "U+1D6AD", "U+1D6AE", "U+1D6AF", "U+1D6B0", "U+1D6B1",
         "U+1D6B2", "U+1D6B3", "U+1D6B4", "U+1D6B5", "U+1D6B6", "U+1D6B7",
         "U+1D6B8", "U+1D6B9", "U+1D6BA", "U+1D6BB", "U+1D6BC", "U+1D6BD",
         "U+1D6BE", "U+1D6BF", "U+1D6C0", "U+1D6C2", "U+1D6C3", "U+1D6C4",
         "U+1D6C5", "U+1D6C6", "U+1D6C7", "U+1D6C8", "U+1D6C9", "U+1D6CA",
         "U+1D6CB", "U+1D6CC", "U+1D6CD", "U+1D6CE", "U+1D6CF", "U+1D6D0",
         "U+1D6D1", "U+1D6D2", "U+1D6D3", "U+1D6D4", "U+1D6D5", "U+1D6D6",
         "U+1D6D7", "U+1D6D8", "U+1D6D9", "U+1D6DA", "U+1D6DC", "U+1D6DD",
         "U+1D6DE", "U+1D6DF", "U+1D6E0", "U+1D6E1", "U+1D6E2", "U+1D6E3",
         "U+1D6E4", "U+1D6E5", "U+1D6E6", "U+1D6E7", "U+1D6E8", "U+1D6E9",
         "U+1D6EA", "U+1D6EB", "U+1D6EC", "U+1D6ED", "U+1D6EE", "U+1D6EF",
         "U+1D6F0", "U+1D6F1", "U+1D6F2", "U+1D6F3", "U+1D6F4", "U+1D6F5",
         "U+1D6F6", "U+1D6F7", "U+1D6F8", "U+1D6F9", "U+1D6FA", "U+1D6FC",
         "U+1D6FD", "U+1D6FE", "U+1D6FF", "U+1D700", "U+1D701", "U+1D702",
         "U+1D703", "U+1D704", "U+1D705", "U+1D706", "U+1D707", "U+1D708",
         "U+1D709", "U+1D70A", "U+1D70B", "U+1D70C", "U+1D70D", "U+1D70E",
         "U+1D70F", "U+1D710", "U+1D711", "U+1D712", "U+1D713", "U+1D714",
         "U+1D716", "U+1D717", "U+1D718", "U+1D719", "U+1D71A", "U+1D71B",
         "U+1D71C", "U+1D71D", "U+1D71E", "U+1D71F", "U+1D720", "U+1D721",
         "U+1D722", "U+1D723", "U+1D724", "U+1D725", "U+1D726", "U+1D727",
         "U+1D728", "U+1D729", "U+1D72A", "U+1D72B", "U+1D72C", "U+1D72D",
         "U+1D72E", "U+1D72F", "U+1D730", "U+1D731", "U+1D732", "U+1D733",
         "U+1D734", "U+1D736", "U+1D737", "U+1D738", "U+1D739", "U+1D73A",
         "U+1D73B", "U+1D73C", "U+1D73D", "U+1D73E", "U+1D73F", "U+1D740",
         "U+1D741", "U+1D742", "U+1D743", "U+1D744", "U+1D745", "U+1D746",
         "U+1D747", "U+1D748", "U+1D749", "U+1D74A", "U+1D74B", "U+1D74C",
         "U+1D74D", "U+1D74E", "U+1D750", "U+1D751", "U+1D752", "U+1D753",
         "U+1D754", "U+1D755", "U+1D756", "U+1D757", "U+1D758", "U+1D759",
         "U+1D75A", "U+1D75B", "U+1D75C", "U+1D75D", "U+1D75E", "U+1D75F",
         "U+1D760", "U+1D761", "U+1D762", "U+1D763", "U+1D764", "U+1D765",
         "U+1D766", "U+1D767", "U+1D768", "U+1D769", "U+1D76A", "U+1D76B",
         "U+1D76C", "U+1D76D", "U+1D76E", "U+1D770", "U+1D771", "U+1D772",
         "U+1D773", "U+1D774", "U+1D775", "U+1D776", "U+1D777", "U+1D778",
         "U+1D779", "U+1D77A", "U+1D77B", "U+1D77C", "U+1D77D", "U+1D77E",
         "U+1D77F", "U+1D780", "U+1D781", "U+1D782", "U+1D783", "U+1D784",
         "U+1D785", "U+1D786", "U+1D787", "U+1D788", "U+1D78A", "U+1D78B",
         "U+1D78C", "U+1D78D", "U+1D78E", "U+1D78F", "U+1D790", "U+1D791",
         "U+1D792", "U+1D793", "U+1D794", "U+1D795", "U+1D796", "U+1D797",
         "U+1D798", "U+1D799", "U+1D79A", "U+1D79B", "U+1D79C", "U+1D79D",
         "U+1D79E", "U+1D79F", "U+1D7A0", "U+1D7A1", "U+1D7A2", "U+1D7A3",
         "U+1D7A4", "U+1D7A5", "U+1D7A6", "U+1D7A7", "U+1D7A8", "U+1D7AA",
         "U+1D7AB", "U+1D7AC", "U+1D7AD", "U+1D7AE", "U+1D7AF", "U+1D7B0",
         "U+1D7B1", "U+1D7B2", "U+1D7B3", "U+1D7B4", "U+1D7B5", "U+1D7B6",
         "U+1D7B7", "U+1D7B8", "U+1D7B9", "U+1D7BA", "U+1D7BB", "U+1D7BC",
         "U+1D7BD", "U+1D7BE", "U+1D7BF", "U+1D7C0", "U+1D7C1", "U+1D7C2",
         "U+1D7C4", "U+1D7C5", "U+1D7C6", "U+1D7C7", "U+1D7C8", "U+1D7C9",
         "U+1D7CA", "U+1D7CB", "U+1DF00", "U+1DF01", "U+1DF02", "U+1DF03",
         "U+1DF04", "U+1DF05", "U+1DF06", "U+1DF07", "U+1DF08", "U+1DF09",
         "U+1DF0B", "U+1DF0C", "U+1DF0D", "U+1DF0E", "U+1DF0F", "U+1DF10",
         "U+1DF11", "U+1DF12", "U+1DF13", "U+1DF14", "U+1DF15", "U+1DF16",
         "U+1DF17", "U+1DF18", "U+1DF19", "U+1DF1A", "U+1DF1B", "U+1DF1C",
         "U+1DF1D", "U+1DF1E", "U+1E900", "U+1E901", "U+1E902", "U+1E903",
         "U+1E904", "U+1E905", "U+1E906", "U+1E907", "U+1E908", "U+1E909",
         "U+1E90A", "U+1E90B", "U+1E90C", "U+1E90D", "U+1E90E", "U+1E90F",
         "U+1E910", "U+1E911", "U+1E912", "U+1E913", "U+1E914", "U+1E915",
         "U+1E916", "U+1E917", "U+1E918", "U+1E919", "U+1E91A", "U+1E91B",
         "U+1E91C", "U+1E91D", "U+1E91E", "U+1E91F", "U+1E920", "U+1E921",
         "U+1E922", "U+1E923", "U+1E924", "U+1E925", "U+1E926", "U+1E927",
         "U+1E928", "U+1E929", "U+1E92A", "U+1E92B", "U+1E92C", "U+1E92D",
         "U+1E92E", "U+1E92F", "U+1E930", "U+1E931", "U+1E932", "U+1E933",
         "U+1E934", "U+1E935", "U+1E936", "U+1E937", "U+1E938", "U+1E939",
         "U+1E93A", "U+1E93B", "U+1E93C", "U+1E93D", "U+1E93E", "U+1E93F",
         "U+1E940", "U+1E941", "U+1E942", "U+1E943", "U+1F130", "U+1F131",
         "U+1F132", "U+1F133", "U+1F134", "U+1F135", "U+1F136", "U+1F137",
         "U+1F138", "U+1F139", "U+1F13A", "U+1F13B", "U+1F13C", "U+1F13D",
         "U+1F13E", "U+1F13F", "U+1F140", "U+1F141", "U+1F142", "U+1F143",
         "U+1F144", "U+1F145", "U+1F146", "U+1F147", "U+1F148", "U+1F149",
         "U+1F150", "U+1F151", "U+1F152", "U+1F153", "U+1F154", "U+1F155",
         "U+1F156", "U+1F157", "U+1F158", "U+1F159", "U+1F15A", "U+1F15B",
         "U+1F15C", "U+1F15D", "U+1F15E", "U+1F15F", "U+1F160", "U+1F161",
         "U+1F162", "U+1F163", "U+1F164", "U+1F165", "U+1F166", "U+1F167",
         "U+1F168", "U+1F169", "U+1F170", "U+1F171", "U+1F172", "U+1F173",
         "U+1F174", "U+1F175", "U+1F176", "U+1F177", "U+1F178", "U+1F179",
         "U+1F17A", "U+1F17B", "U+1F17C", "U+1F17D", "U+1F17E", "U+1F17F",
         "U+1F180", "U+1F181", "U+1F182", "U+1F183", "U+1F184", "U+1F185",
         "U+1F186", "U+1F187", "U+1F188", "U+1F189"},
     ignorable |->
        {"'", ".", ":", "^", "U+0060", "¨", "­", "¯", "´", "·", "¸", "U+02B0",
         "U+02B1", "U+02B2", "U+02B3", "U+02B4", "U+02B5", "U+02B6", "U+02B7",
         "U+02B8", "U+02B9", "U+02BA", "U+02BB", "U+02BC", "U+02BD", "U+02BE",
         "U+02BF", "U+02C0", "U+02C1", "U+02C2", "U+02C3", "U+02C4", "U+02C5",
         "U+02C6", "U+02C7", "U+02C8", "U+02C9", "U+02CA", "U+02CB", "U+02CC",
         "U+02CD", "U+02CE", "U+02CF", "U+02D0", "U+02D1", "U+02D2", "U+02D3",
         "U+02D4", "U+02D5", "U+02D6", "U+02D7", "U+02D8", "U+02D9", "U+02DA",
         "U+02DB", "U+02DC", "U+02DD", "U+02DE", "U+02DF", "U+02E0", "U+02E1",
         "U+02E2", "U+02E3", "U+02E4", "U+02E5", "U+02E6", "U+02E7", "U+02E8",
         "U+02E9", "U+02EA", "U+02EB", "U+02EC", "U+02ED", "U+02EE", "U+02EF",
         "U+02F0", "U+02F1", "U+02F2", "U+02F3", "U+02F4", "U+02F5", "U+02F6",
         "U+02F7", "U+02F8", "U+02F9", "U+02FA", "U+02FB", "U+02FC", "U+02FD",
         "U+02FE", "U+02FF", "U+0300", "U+0301", "U+0302", "U+0303", "U+0304",
         "U+0305", "U+0306", "U+0307", "U+0308", "U+0309", "U+030A", "U+030B",
         "U+030C", "U+030D", "U+030E", "U+030F", "U+0310", "U+0311", "U+0312",
         "U+0313", "U+0314", "U+0315", "U+0316", "U+0317", "U+0318", "U+0319",
         "U+031A", "U+031B", "U+031C", "U+031D", "U+031E", "U+031F", "U+0320",
         "U+0321", "U+0322", "U+0323", "U+0324", "U+0325", "U+0326", "U+0327",
         "U+0328", "U+0329", "U+032A", "U+032B", "U+032C", "U+032D", "U+032E",
         "U+032F", "U+0330", "U+0331", "U+0332", "U+0333", "U+0334", "U+0335",
         "U+0336", "U+0337", "U+0338", "U+0339", "U+033A", "U+033B", "U+033C",
         "U+033D", "U+033E", "U+033F", "U+0340", "U+0341", "U+0342", "U+0343",
         "U+0344", "U+0345", "U+0346", "U+0347", "U+0348", "U+0349", "U+034A",
         "U+034B", "U+034C", "U+034D", "U+034E", "U+034F", "U+0350", "U+0351",
         "U+0352", "U+0353", "U+0354", "U+0355", "U+0356", "U+0357", "U+0358",
         "U+0359", "U+035A", "U+035B", "U+035C", "U+035D", "U+035E", "U+035F",
         "U+0360", "U+0361", "U+0362", "U+0363", "U+0364", "U+0365", "U+0366",
         "U+0367", "U+0368", "U+0369", "U+036A", "U+036B", "U+036C", "U+036D",
         "U+036E", "U+036F", "U+0374", "U+0375", "U+037A", "U+0384", "U+0385",
         "U+0387", "U+0483", "U+0484", "U+0485", "U+0486", "U+0487", "U+0488",
         "U+0489", "U+0559", "U+055F", "U+0591", "U+0592", "U+0593", "U+0594",
         "U+0595", "U+0596", "U+0597", "U+0598", "U+0599", "U+059A", "U+059B",
         "U+059C", "U+059D", "U+059E", "U+059F", "U+05A0", "U+05A1", "U+05A2",
         "U+05A3", "U+05A4", "U+05A5", "U+05A6", "U+05A7", "U+05A8", "U+05A9",
         "U+05AA", "U+05AB", "U+05AC", "U+05AD", "U+05AE", "U+05AF", "U+05B0",
         "U+05B1", "U+05B2", "U+05B3", "U+05B4", "U+05B5", "U+05B6", "U+05B7",
         "U+05B8", "U+05B9", "U+05BA", "U+05BB", "U+05BC", "U+05BD", "U+05BF",
         "U+05C1", "U+05C2", "U+05C4", "U+05C5", "U+05C7", "U+05F4", "U+0600",
         "U+0601", "U+0602", "U+0603", "U+0604", "U+0605", "U+0610", "U+0611",
         "U+0612", "U+0613", "U+0614", "U+0615", "U+0616", "U+0617", "U+0618",
         "U+0619", "U+061A", "U+061C", "U+0640", "U+064B", "U+064C", "U+064D",
         "U+064E", "U+064F", "U+0650", "U+0651", "U+0652", "U+0653", "U+0654",
         "U+0655", "U+0656", "U+0657", "U+0658", "U+0659", "U+065A", "U+065B",
         "U+065C", "U+065D", "U+065E", "U+065F", "U+0670", "U+06D6", "U+06D7",
         "U+06D8", "U+06D9", "U+06DA", "U+06DB", "U+06DC", "U+06DD", "U+06DF",
         "U+06E0", "U+06E1", "U+06E2", "U+06E3", "U+06E4", "U+06E5", "U+06E6",
         "U+06E7", "U+06E8", "U+06EA", "U+06EB", "U+06EC", "U+06ED", "U+070F",
         "U+0711", "U+0730", "U+0731", "U+0732", "U+0733", "U+0734", "U+0735",
         "U+0736", "U+0737", "U+0738", "U+0739", "U+073A", "U+073B", "U+073C",
         "U+073D", "U+073E", "U+073F", "U+0740", "U+0741", "U+0742", "U+0743",
         "U+0744", "U+0745", "U+0746", "U+0747", "U+0748", "U+0749", "U+074A",
         "U+07A6", "U+07A7", "U+07A8", "U+07A9", "U+07AA", "U+07AB", "U+07AC",
         "U+07AD", "U+07AE", "U+07AF", "U+07B0", "U+07EB", "U+07EC", "U+07ED",
         "U+07EE", "U+07EF", "U+07F0", "U+07F1", "U+07F2", "U+07F3", "U+07F4",
         "U+07F5", "U+07FA", "U+07FD", "U+0816", "U+0817", "U+0818", "U+0819",
         "U+081A", "U+081B", "U+081C", "U+081D", "U+081E", "U+081F", "U+0820",
         "U+0821", "U+0822", "U+0823", "U+0824", "U+0825", "U+0826", "U+0827",
         "U+0828", "U+0829", "U+082A", "U+082B", "U+082C", "U+082D", "U+0859",
         "U+085A", "U+085B", "U+0888", "U+0890", "U+0891", "U+0898", "U+0899",
         "U+089A", "U+089B", "U+089C", "U+089D", "U+089E", "U+089F", "U+08C9",
         "U+08CA", "U+08CB", "U+08CC", "U+08CD", "U+08CE", "U+08CF", "U+08D0",
         "U+08D1", "U+08D2", "U+08D3", "U+08D4", "U+08D5", "U+08D6", "U+08D7",
         "U+08D8", "U+08D9", "U+08DA", "U+08DB", "U+08DC", "U+08DD", "U+08DE",
         "U+08DF", "U+08E0", "U+08E1", "U+08E2", "U+08E3", "U+08E4", "U+08E5",
         "U+08E6", "U+08E7", "U+08E8", "U+08E9", "U+08EA", "U+08EB", "U+08EC",
         "U+08ED", "U+08EE", "U+08EF", "U+08F0", "U+08F1", "U+08F2", "U+08F3",
         "U+08F4", "U+08F5", "U+08F6", "U+08F7", "U+08F8", "U+08F9", "U+08FA",
         "U+08FB", "U+08FC", "U+08FD", "U+08FE", "U+08FF", "U+0900", "U+0901",
         "U+0902", "U+093A", "U+093C", "U+0941", "U+0942", "U+0943", "U+0944",
         "U+0945", "U+0946", "U+0947", "U+0948", "U+094D", "U+0951", "U+0952",
         "U+0953", "U+0954", "U+0955", "U+0956", "U+0957", "U+0962", "U+0963",
         "U+0971", "U+0981", "U+09BC", "U+09C1", "U+09C2", "U+09C3", "U+09C4",
         "U+09CD", "U+09E2", "U+09E3", "U+09FE", "U+0A01", "U+0A02", "U+0A3C",
         "U+0A41", "U+0A42", "U+0A47", "U+0A48", "U+0A4B", "U+0A4C", "U+0A4D",
         "U+0A51", "U+0A70", "U+0A71", "U+0A75", "U+0A81", "U+0A82", "U+0ABC",
         "U+0AC1", "U+0AC2", "U+0AC3", "U+0AC4", "U+0AC5", "U+0AC7", "U+0AC8",
         "U+0ACD", "U+0AE2", "U+0AE3", "U+0AFA", "U+0AFB", "U+0AFC", "U+0AFD",
         "U+0AFE", "U+0AFF", "U+0B01", "U+0B3C", "U+0B3F", "U+0B41", "U+0B42",
         "U+0B43", "U+0B44", "U+0B4D", "U+0B55", "U+0B56", "U+0B62", "U+0B63",
         "U+0B82", "U+0BC0", "U+0BCD", "U+0C00", "U+0C04", "U+0C3C", "U+0C3E",
         "U+0C3F", "U+0C40", "U+0C46", "U+0C47", "U+0C48", "U+0C4A", "U+0C4B",
         "U+0C4C", "U+0C4D", "U+0C55", "U+0C56", "U+0C62", "U+0C63", "U+0C81",
         "U+0CBC", "U+0CBF", "U+0CC6", "U+0CCC", "U+0CCD", "U+0CE2", "U+0CE3",
         "U+0D00", "U+0D01", "U+0D3B", "U+0D3C", "U+0D41", "U+0D42", "U+0D43",
         "U+0D44", "U+0D4D", "U+0D62", "U+0D63", "U+0D81", "U+0DCA", "U+0DD2",
         "U+0DD3", "U+0DD4", "U+0DD6", "U+0E31", "U+0E34", "U+0E35", "U+0E36",
         "U+0E37", "U+0E38", "U+0E39", "U+0E3A", "U+0E46", "U+0E47", "U+0E48",
         "U+0E49", "U+0E4A", "U+0E4B", "U+0E4C", "U+0E4D", "U+0E4E", "U+0EB1",
         "U+0EB4", "U+0EB5", "U+0EB6", "U+0EB7", "U+0EB8", "U+0EB9", "U+0EBA",
         "U+0EBB", "U+0EBC", "U+0EC6", "U+0EC8", "U+0EC9", "U+0ECA", "U+0ECB",
         "U+0ECC", "U+0ECD", "U+0F18", "U+0F19", "U+0F35", "U+0F37", "U+0F39",
         "U+0F71", "U+0F72", "U+0F73", "U+0F74", "U+0F75", "U+0F76", "U+0F77",
         "U+0F78", "U+0F79", "U+0F7A", "U+0F7B", "U+0F7C", "U+0F7D", "U+0F7E",
         "U+0F80", "U+0F81", "U+0F82", "U+0F83", "U+0F84", "U+0F86", "U+0F87",
         "U+0F8D", "U+0F8E", "U+0F8F", "U+0F90", "U+0F91", "U+0F92", "U+0F93",
         "U+0F94", "U+0F95", "U+0F96", "U+0F97", "U+0F99", "U+0F9A", "U+0F9B",
         "U+0F9C", "U+0F9D", "U+0F9E", "U+0F9F", "U+0FA0", "U+0FA1", "U+0FA2",
         "U+0FA3", "U+0FA4", "U+0FA5", "U+0FA6", "U+0FA7", "U+0FA8", "U+0FA9",
         "U+0FAA", "U+0FAB", "U+0FAC", "U+0FAD", "U+0FAE", "U+0FAF", "U+0FB0",
         "U+0FB1", "U+0FB2", "U+0FB3", "U+0FB4", "U+0FB5", "U+0FB6", "U+0FB7",
         "U+0FB8", "U+0FB9", "U+0FBA", "U+0FBB", "U+0FBC", "U+0FC6", "U+102D",
         "U+102E", "U+102F", "U+1030", "U+1032", "U+1033", "U+1034", "U+1035",
         "U+1036", "U+1037", "U+1039", "U+103A", "U+103D", "U+103E", "U+1058",
         "U+1059", "U+105E", "U+105F", "U+1060", "U+1071", "U+1072", "U+1073",
         "U+1074", "U+1082", "U+1085", "U+1086", "U+108D", "U+109D", "U+10FC",
         "U+135D", "U+135E", "U+135F", "U+1712", "U+1713", "U+1714", "U+1732",
         "U+1733", "U+1752", "U+1753", "U+1772", "U+1773", "U+17B4", "U+17B5",
         "U+17B7", "U+17B8", "U+17B9", "U+17BA", "U+17BB", "U+17BC", "U+17BD",
         "U+17C6", "U+17C9", "U+17CA", "U+17CB", "U+17CC", "U+17CD", "U+17CE",
         "U+17CF", "U+17D0", "U+17D1", "U+17D2", "U+17D3", "U+17D7", "U+17DD",
         "U+180B", "U+180C", "U+180D", "U+180E", "U+180F", "U+1843", "U+1885",
         "U+1886", "U+18A9", "U+1920", "U+1921", "U+1922", "U+1927", "U+1928",
         "U+1932", "U+1939", "U+193A", "U+193B", "U+1A17", "U+1A18", "U+1A1B",
         "U+1A56", "U+1A58", "U+1A59", "U+1A5A", "U+1A5B", "U+1A5C", "U+1A5D",
         "U+1A5E", "U+1A60", "U+1A62", "U+1A65", "U+1A66", "U+1A67", "U+1A68",
         "U+1A69", "U+1A6A", "U+1A6B", "U+1A6C", "U+1A73", "U+1A74", "U+1A75",
         "U+1A76", "U+1A77", "U+1A78", "U+1A79", "U+1A7A", "U+1A7B", "U+1A7C",
         "U+1A7F", "U+1AA7", "U+1AB0", "U+1AB1", "U+1AB2", "U+1AB3", "U+1AB4",
         "U+1AB5", "U+1AB6", "U+1AB7", "U+1AB8", "U+1AB9", "U+1ABA", "U+1ABB",
         "U+1ABC", "U+1ABD", "U+1ABE", "U+1ABF", "U+1AC0", "U+1AC1", "U+1AC2",
         "U+1AC3", "U+1AC4", "U+1AC5", "U+1AC6", "U+1AC7", "U+1AC8", "U+1AC9",
         "U+1ACA", "U+1ACB", "U+1ACC", "U+1ACD", "U+1ACE", "U+1B00", "U+1B01",
         "U+1B02", "U+1B03", "U+1B34", "U+1B36", "U+1B37", "U+1B38", "U+1B39",
         "U+1B3A", "U+1B3C", "U+1B42", "U+1B6B", "U+1B6C", "U+1B6D", "U+1B6E",
         "U+1B6F", "U+1B70", "U+1B71", "U+1B72", "U+1B73", "U+1B80", "U+1B81",
         "U+1BA2", "U+1BA3", "U+1BA4", "U+1BA5", "U+1BA8", "U+1BA9", "U+1BAB",
         "U+1BAC", "U+1BAD", "U+1BE6", "U+1BE8", "U+1BE9", "U+1BED", "U+1BEF",
         "U+1BF0", "U+1BF1", "U+1C2C", "U+1C2D", "U+1C2E", "U+1C2F", "U+1C30",
         "U+1C31", "U+1C32", "U+1C33", "U+1C36", "U+1C37", "U+1C78", "U+1C79",
         "U+1C7A", "U+1C7B", "U+1C7C", "U+1C7D", "U+1CD0", "U+1CD1", "U+1CD2",
         "U+1CD4", "U+1CD5", "U+1CD6", "U+1CD7", "U+1CD8", "U+1CD9", "U+1CDA",
         "U+1CDB", "U+1CDC", "U+1CDD", "U+1CDE", "U+1CDF", "U+1CE0", "U+1CE2",
         "U+1CE3", "U+1CE4", "U+1CE5", "U+1CE6", "U+1CE7", "U+1CE8", "U+1CED",
         "U+1CF4", "U+1CF8", "U+1CF9", "U+1D2C", "U+1D2D", "U+1D2E", "U+1D2F",
         "U+1D30", "U+1D31", "U+1D32", "U+1D33", "U+1D34", "U+1D35", "U+1D36",
         "U+1D37", "U+1D38", "U+1D39", "U+1D3A", "U+1D3B", "U+1D3C", "U+1D3D",
         "U+1D3E", "U+1D3F", "U+1D40", "U+1D41", "U+1D42", "U+1D43", "U+1D44",
         "U+1D45", "U+1D46", "U+1D47", "U+1D48", "U+1D49", "U+1D4A", "U+1D4B",
         "U+1D4C", "U+1D4D", "U+1D4E", "U+1D4F", "U+1D50", "U+1D51", "U+1D52",
         "U+1D53", "U+1D54", "U+1D55", "U+1D56", "U+1D57", "U+1D58", "U+1D59",
         "U+1D5A", "U+1D5B", "U+1D5C", "U+1D5D", "U+1D5E", "U+1D5F", "U+1D60",
         "U+1D61", "U+1D62", "U+1D63", "U+1D64", "U+1D65", "U+1D66", "U+1D67",
         "U+1D68", "U+1D69", "U+1D6A", "U+1D78", "U+1D9B", "U+1D9C", "U+1D9D",
         "U+1D9E", "U+1D9F", "U+1DA0", "U+1DA1", "U+1DA2", "U+1DA3", "U+1DA4",
         "U+1DA5", "U+1DA6", "U+1DA7", "U+1DA8", "U+1DA9", "U+1DAA", "U+1DAB",
         "U+1DAC", "U+1DAD", "U+1DAE", "U+1DAF", "U+1DB0", "U+1DB1", "U+1DB2",
         "U+1DB3", "U+1DB4", "U+1DB5", "U+1DB6", "U+1DB7", "U+1DB8", "U+1DB9",
         "U+1DBA", "U+1DBB", "U+1DBC", "U+1DBD", "U+1DBE", "U+1DBF", "U+1DC0",
         "U+1DC1", "U+1DC2", "U+1DC3", "U+1DC4", "U+1DC5", "U+1DC6", "U+1DC7",
         "U+1DC8", "U+1DC9", "U+1DCA", "U+1DCB", "U+1DCC", "U+1DCD", "U+1DCE",
         "U+1DCF", "U+1DD0", "U+1DD1", "U+1DD2", "U+1DD3", "U+1DD4", "U+1DD5",
         "U+1DD6", "U+1DD7", "U+1DD8", "U+1DD9", "U+1DDA", "U+1DDB", "U+1DDC",
         "U+1DDD", "U+1DDE", "U+1DDF", "U+1DE0", "U+1DE1", "U+1DE2", "U+1DE3",
         "U+1DE4", "U+1DE5", "U+1DE6", "U+1DE7", "U+1DE8", "U+1DE9", "U+1DEA",
         "U+1DEB", "U+1DEC", "U+1DED", "U+1DEE", "U+1DEF", "U+1DF0", "U+1DF1",
         "U+1DF2", "U+1DF3", "U+1DF4", "U+1DF5", "U+1DF6", "U+1DF7", "U+1DF8",
         "U+1DF9", "U+1DFA", "U+1DFB", "U+1DFC", "U+1DFD", "U+1DFE", "U+1DFF",
         "U+1FBD", "U+1FBF", "U+1FC0", "U+1FC1", "U+1FCD", "U+1FCE", "U+1FCF",
         "U+1FDD", "U+1FDE", "U+1FDF", "U+1FED", "U+1FEE", "U+1FEF", "U+1FFD",
         "U+1FFE", "U+200B", "U+200C", "U+200D", "U+200E", "U+200F", "U+2018",
         "U+2019", "U+2024", "U+2027", "U+202A", "U+202B", "U+202C", "U+202D",
         "U+202E", "U+2060", "U+2061", "U+2062", "U+2063", "U+2064", "U+2066",
         "U+2067", "U+2068", "U+2069", "U+206A", "U+206B", "U+206C", "U+206D",
         "U+206E", "U+206F", "U+2071", "U+207F", "U+2090", "U+2091", "U+2092",
         "U+2093", "U+2094", "U+2095", "U+2096", "U+2097", "U+2098", "U+2099",
         "U+209A", "U+209B", "U+209C", "U+20D0", "U+20D1", "U+20D2", "U+20D3",
         "U+20D4", "U+20D5", "U+20D6", "U+20D7", "U+20D8", "U+20D9", "U+20DA",
         "U+20DB", "U+20DC", "U+20DD", "U+20DE", "U+20DF", "U+20E0", "U+20E1",
         "U+20E2", "U+20E3", "U+20E4", "U+20E5", "U+20E6", "U+20E7", "U+20E8",
         "U+20E9", "U+20EA", "U+20EB", "U+20EC", "U+20ED", "U+20EE", "U+20EF",
         "U+20F0", "U+2C7C", "U+2C7D", "U+2CEF", "U+2CF0", "U+2CF1", "U+2D6F",
         "U+2D7F", "U+2DE0", "U+2DE1", "U+2DE2", "U+2DE3", "U+2DE4", "U+2DE5",
         "U+2DE6", "U+2DE7", "U+2DE8", "U+2DE9", "U+2DEA", "U+2DEB", "U+2DEC",
         "U+2DED", "U+2DEE", "U+2DEF", "U+2DF0", "U+2DF1", "U+2DF2", "U+2DF3",
         "U+2DF4", "U+2DF5", "U+2DF6", "U+2DF7", "U+2DF8", "U+2DF9", "U+2DFA",
         "U+2DFB", "U+2DFC", "U+2DFD", "U+2DFE", "U+2DFF", "U+2E2F", "U+3005",
         "U+302A", "U+302B", "U+302C", "U+302D", "U+3031", "U+3032", "U+3033",
         "U+3034", "U+3035", "U+303B", "U+3099", "U+309A", "U+309B", "U+309C",
         "U+309D", "U+309E", "U+30FC", "U+30FD", "U+30FE", "U+A015", "U+A4F8",
         "U+A4F9", "U+A4FA", "U+A4FB", "U+A4FC", "U+A4FD", "U+A60C", "U+A66F",
         "U+A670", "U+A671", "U+A672", "U+A674", "U+A675", "U+A676", "U+A677",
         "U+A678", "U+A679", "U+A67A", "U+A67B", "U+A67C", "U+A67D", "U+A67F",
         "U+A69C", "U+A69D", "U+A69E", "U+A69F", "U+A6F0", "U+A6F1", "U+A700",
         "U+A701", "U+A702", "U+A703", "U+A704", "U+A705", "U+A706", "U+A707",
         "U+A708", "U+A709", "U+A70A", "U+A70B", "U+A70C", "U+A70D", "U+A70E",
         "U+A70F", "U+A710", "U+A711", "U+A712", "U+A713", "U+A714", "U+A715",
         "U+A716", "U+A717", "U+A718", "U+A719", "U+A71A", "U+A71B", "U+A71C",
         "U+A71D", "U+A71E", "U+A71F", "U+A720", "U+A721", "U+A770", "U+A788",
         "U+A789", "U+A78A", "U+A7F2", "U+A7F3", "U+A7F4", "U+A7F8", "U+A7F9",
         "U+A802", "U+A806", "U+A80B", "U+A825", "U+A826", "U+A82C", "U+A8C4",
         "U+A8C5", "U+A8E0", "U+A8E1", "U+A8E2", "U+A8E3", "U+A8E4", "U+A8E5",
         "U+A8E6", "U+A8E7", "U+A8E8", "U+A8E9", "U+A8EA", "U+A8EB", "U+A8EC",
         "U+A8ED", "U+A8EE", "U+A8EF", "U+A8F0", "U+A8F1", "U+A8FF", "U+A926",
         "U+A927", "U+A928", "U+A929", "U+A92A", "U+A92B", "U+A92C", "U+A92D",
         "U+A947", "U+A948", "U+A949", "U+A94A", "U+A94B", "U+A94C", "U+A94D",
         "U+A94E", "U+A94F", "U+A950", "U+A951", "U+A980", "U+A981", "U+A982",
         "U+A9B3", "U+A9B6", "U+A9B7", "U+A9B8", "U+A9B9", "U+A9BC", "U+A9BD",
         "U+A9CF", "U+A9E5", "U+A9E6", "U+AA29", "U+AA2A", "U+AA2B", "U+AA2C",
         "U+AA2D", "U+AA2E", "U+AA31", "U+AA32", "U+AA35", "U+AA36", "U+AA43",
         "U+AA4C", "U+AA70", "U+AA7C", "U+AAB0", "U+AAB2", "U+AAB3", "U+AAB4",
         "U+AAB7", "U+AAB8", "U+AABE", "U+AABF", "U+AAC1", "U+AADD", "U+AAEC",
         "U+AAED", "U+AAF3", "U+AAF4", "U+AAF6", "U+AB5B", "U+AB5C", "U+AB5D",
         "U+AB5E", "U+AB5F", "U+AB69", "U+AB6A", "U+AB6B", "U+ABE5", "U+ABE8",
         "U+ABED", "U+FB1E", "U+FBB2", "U+FBB3", "U+FBB4", "U+FBB5", "U+FBB6",
         "U+FBB7", "U+FBB8", "U+FBB9", "U+FBBA", "U+FBBB", "U+FBBC", "U+FBBD",
         "U+FBBE", "U+FBBF", "U+FBC0", "U+FBC1", "U+FBC2", "U+FE00", "U+FE01",
         "U+FE02", "U+FE03", "U+FE04", "U+FE05", "U+FE06", "U+FE07", "U+FE08",
         "U+FE09", "U+FE0A", "U+FE0B", "U+FE0C", "U+FE0D", "U+FE0E", "U+FE0F",
         "U+FE13", "U+FE20", "U+FE21", "U+FE22", "U+FE23", "U+FE24", "U+FE25",
         "U+FE26", "U+FE27", "U+FE28", "U+FE29", "U+FE2A", "U+FE2B", "U+FE2C",
         "U+FE2D", "U+FE2E", "U+FE2F", "U+FE52", "U+FE55", "U+FEFF", "U+FF07",
         "U+FF0E", "U+FF1A", "U+FF3E", "U+FF40", "U+FF70", "U+FF9E", "U+FF9F",
         "U+FFE3", "U+FFF9", "U+FFFA", "U+FFFB", "U+101FD", "U+102E0",
         "U+10376", "U+10377", "U+10378", "U+10379", "U+1037A", "U+10780",
         "U+10781", "U+10782", "U+10783", "U+10784", "U+10785", "U+10787",
         "U+10788", "U+10789", "U+1078A", "U+1078B", "U+1078C", "U+1078D",
         "U+1078E", "U+1078F", "U+10790", "U+10791", "U+10792", "U+10793",
         "U+10794", "U+10795", "U+10796", "U+10797", "U+10798", "U+10799",
         "U+1079A", "U+1079B", "U+1079C", "U+1079D", "U+1079E", "U+1079F",
         "U+107A0", "U+107A1", "U+107A2", "U+107A3", "U+107A4", "U+107A5",
         "U+107A6", "U+107A7", "U+107A8", "U+107A9", "U+107AA", "U+107AB",
         "U+107AC", "U+107AD", "U+107AE", "U+107AF", "U+107B0", "U+107B2",
         "U+107B3", "U+107B4", "U+107B5", "U+107B6", "U+107B7", "U+107B8",
         "U+107B9", "U+107BA", "U+10A01", "U+10A02", "U+10A03", "U+10A05",
         "U+10A06", "U+10A0C", "U+10A0D", "U+10A0E", "U+10A0F", "U+10A38",
         "U+10A39", "U+10A3A", "U+10A3F", "U+10AE5", "U+10AE6", "U+10D24",
         "U+10D25", "U+10D26", "U+10D27", "U+10EAB", "U+10EAC", "U+10F46",
         "U+10F47", "U+10F48", "U+10F49", "U+10F4A", "U+10F4B", "U+10F4C",
         "U+10F4D", "U+10F4E", "U+10F4F", "U+10F50", "U+10F82", "U+10F83",
         "U+10F84", "U+10F85", "U+11001", "U+11038", "U+11039", "U+1103A",
         "U+1103B", "U+1103C", "U+1103D", "U+1103E", "U+1103F", "U+11040",
         "U+11041", "U+11042", "U+11043", "U+11044", "U+11045", "U+11046",
         "U+11070", "U+11073", "U+11074", "U+1107F", "U+11080", "U+11081",
         "U+110B3", "U+110B4", "U+110B5", "U+110B6", "U+110B9", "U+110BA",
         "U+110BD", "U+110C2", "U+110CD", "U+11100", "U+11101", "U+11102",
         "U+11127", "U+11128", "U+11129", "U+1112A", "U+1112B", "U+1112D",
         "U+1112E", "U+1112F", "U+11130", "U+11131", "U+11132", "U+11133",
         "U+11134", "U+11173", "U+11180", "U+11181", "U+111B6", "U+111B7",
         "U+111B8", "U+111B9", "U+111BA", "U+111BB", "U+111BC", "U+111BD",
         "U+111BE", "U+111C9", "U+111CA", "U+111CB", "U+111CC", "U+111CF",
         "U+1122F", "U+11230", "U+11231", "U+11234", "U+11236", "U+11237",
         "U+1123E", "U+112DF", "U+112E3", "U+112E4", "U+112E5", "U+112E6",
         "U+112E7", "U+112E8", "U+112E9", "U+112EA", "U+11300", "U+11301",
         "U+1133B", "U+1133C", "U+11340", "U+11366", "U+11367", "U+11368",
         "U+11369", "U+1136A", "U+1136B", "U+1136C", "U+11370", "U+11371",
         "U+11372", "U+11373", "U+11374", "U+11438", "U+11439", "U+1143A",
         "U+1143B", "U+1143C", "U+1143D", "U+1143E", "U+1143F", "U+11442",
         "U+11443", "U+11444", "U+11446", "U+1145E", "U+114B3", "U+114B4",
         "U+114B5", "U+114B6", "U+114B7", "U+114B8", "U+114BA", "U+114BF",
         "U+114C0", "U+114C2", "U+114C3", "U+115B2", "U+115B3", "U+115B4",
         "U+115B5", "U+115BC", "U+115BD", "U+115BF", "U+115C0", "U+115DC",
         "U+115DD", "U+11633", "U+11634", "U+11635", "U+11636", "U+11637",
         "U+11638", "U+11639", "U+1163A", "U+1163D", "U+1163F", "U+11640",
         "U+116AB", "U+116AD", "U+116B0", "U+116B1", "U+116B2", "U+116B3",
         "U+116B4", "U+116B5", "U+116B7", "U+1171D", "U+1171E", "U+1171F",
         "U+11722", "U+11723", "U+11724", "U+11725", "U+11727", "U+11728",
         "U+11729", "U+1172A", "U+1172B", "U+1182F", "U+11830", "U+11831",
         "U+11832", "U+11833", "U+11834", "U+11835", "U+11836", "U+11837",
         "U+11839", "U+1183A", "U+1193B", "U+1193C", "U+1193E", "U+11943",
         "U+119D4", "U+119D5", "U+119D6", "U+119D7", "U+119DA", "U+119DB",
         "U+119E0", "U+11A01", "U+11A02", "U+11A03", "U+11A04", "U+11A05",
         "U+11A06", "U+11A07", "U+11A08", "U+11A09", "U+11A0A", "U+11A33",
         "U+11A34", "U+11A35", "U+11A36", "U+11A37", "U+11A38", "U+11A3B",
         "U+11A3C", "U+11A3D", "U+11A3E", "U+11A47", "U+11A51", "U+11A52",
         "U+11A53", "U+11A54", "U+11A55", "U+11A56", "U+11A59", "U+11A5A",
         "U+11A5B", "U+11A8A", "U+11A8B", "U+11A8C", "U+11A8D", "U+11A8E",
         "U+11A8F", "U+11A90", "U+11A91", "U+11A92", "U+11A93", "U+11A94",
         "U+11A95", "U+11A96", "U+11A98", "U+11A99", "U+11C30", "U+11C31",
         "U+11C32", "U+11C33", "U+11C34", "U+11C35", "U+11C36", "U+11C38",
         "U+11C39", "U+11C3A", "U+11C3B", "U+11C3C", "U+11C3D", "U+11C3F",
         "U+11C92", "U+11C93", "U+11C94", "U+11C95", "U+11C96", "U+11C97",
         "U+11C98", "U+11C99", "U+11C9A", "U+11C9B", "U+11C9C", "U+11C9D",
         "U+11C9E", "U+11C9F", "U+11CA0", "U+11CA1", "U+11CA2", "U+11CA3",
         "U+11CA4", "U+11CA5", "U+11CA6", "U+11CA7", "U+11CAA", "U+11CAB",
         "U+11CAC", "U+11CAD", "U+11CAE", "U+11CAF", "U+11CB0", "U+11CB2",
         "U+11CB3", "U+11CB5", "U+11CB6", "U+11D31", "U+11D32", "U+11D33",
         "U+11D34", "U+11D35", "U+11D36", "U+11D3A", "U+11D3C", "U+11D3D",
         "U+11D3F", "U+11D40", "U+11D41", "U+11D42", "U+11D43", "U+11D44",
         "U+11D45", "U+11D47", "U+11D90", "U+11D91", "U+11D95", "U+11D97",
         "U+11EF3", "U+11EF4", "U+13430", "U+13431", "U+13432", "U+13433",
         "U+13434", "U+13435", "U+13436", "U+13437", "U+13438", "U+16AF0",
         "U+16AF1", "U+16AF2", "U+16AF3", "U+16AF4", "U+16B30", "U+16B31",
         "U+16B32", "U+16B33", "U+16B34", "U+16B35", "U+16B36", "U+16B40",
         "U+16B41", "U+16B42", "U+16B43", "U+16F4F", "U+16F8F", "U+16F90",
         "U+16F91", "U+16F92", "U+16F93", "U+16F94", "U+16F95", "U+16F96",
         "U+16F97", "U+16F98", "U+16F99", "U+16F9A", "U+16F9B", "U+16F9C",
         "U+16F9D", "U+16F9E", "U+16F9F", "U+16FE0", "U+16FE1", "U+16FE3",
         "U+16FE4", "U+1AFF0", "U+1AFF1", "U+1AFF2", "U+1AFF3", "U+1AFF5",
         "U+1AFF6", "U+1AFF7", "U+1AFF8", "U+1AFF9", "U+1AFFA", "U+1AFFB",
         "U+1AFFD", "U+1AFFE", "U+1BC9D", "U+1BC9E", "U+1BCA0", "U+1BCA1",
         "U+1BCA2", "U+1BCA3", "U+1CF00", "U+1CF01", "U+1CF02", "U+1CF03",
         "U+1CF04", "U+1CF05", "U+1CF06", "U+1CF07", "U+1CF08", "U+1CF09",
         "U+1CF0A", "U+1CF0B", "U+1CF0C", "U+1CF0D", "U+1CF0E", "U+1CF0F",
         "U+1CF10", "U+1CF11", "U+1CF12", "U+1CF13", "U+1CF14", "U+1CF15",
         "U+1CF16", "U+1CF17", "U+1CF18", "U+1CF19", "U+1CF1A", "U+1CF1B",
         "U+1CF1C", "U+1CF1D", "U+1CF1E", "U+1CF1F", "U+1CF20", "U+1CF21",
         "U+1CF22", "U+1CF23", "U+1CF24", "U+1CF25", "U+1CF26", "U+1CF27",
         "U+1CF28", "U+1CF29", "U+1CF2A", "U+1CF2B", "U+1CF2C", "U+1CF2D",
         "U+1CF30", "U+1CF31", "U+1CF32", "U+1CF33", "U+1CF34", "U+1CF35",
         "U+1CF36", "U+1CF37", "U+1CF38", "U+1CF39", "U+1CF3A", "U+1CF3B",
         "U+1CF3C", "U+1CF3D", "U+1CF3E", "U+1CF3F", "U+1CF40", "U+1CF41",
         "U+1CF42", "U+1CF43", "U+1CF44", "U+1CF45", "U+1CF46", "U+1D167",
         "U+1D168", "U+1D169", "U+1D173", "U+1D174", "U+1D175", "U+1D176",
         "U+1D177", "U+1D178", "U+1D179", "U+1D17A", "U+1D17B", "U+1D17C",
         "U+1D17D", "U+1D17E", "U+1D17F", "U+1D180", "U+1D181", "U+1D182",
         "U+1D185", "U+1D186", "U+1D187", "U+1D188", "U+1D189", "U+1D18A",
         "U+1D18B", "U+1D1AA", "U+1D1AB", "U+1D1AC", "U+1D1AD", "U+1D242",
         "U+1D243", "U+1D244", "U+1DA00", "U+1DA01", "U+1DA02", "U+1DA03",
         "U+1DA04", "U+1DA05", "U+1DA06", "U+1DA07", "U+1DA08", "U+1DA09",
         "U+1DA0A", "U+1DA0B", "U+1DA0C", "U+1DA0D", "U+1DA0E", "U+1DA0F",
         "U+1DA10", "U+1DA11", "U+1DA12", "U+1DA13", "U+1DA14", "U+1DA15",
         "U+1DA16", "U+1DA17", "U+1DA18", "U+1DA19", "U+1DA1A", "U+1DA1B",
         "U+1DA1C", "U+1DA1D", "U+1DA1E", "U+1DA1F", "U+1DA20", "U+1DA21",
         "U+1DA22", "U+1DA23", "U+1DA24", "U+1DA25", "U+1DA26", "U+1DA27",
         "U+1DA28", "U+1DA29", "U+1DA2A", "U+1DA2B", "U+1DA2C", "U+1DA2D",
         "U+1DA2E", "U+1DA2F", "U+1DA30", "U+1DA31", "U+1DA32", "U+1DA33",
         "U+1DA34", "U+1DA35", "U+1DA36", "U+1DA3B", "U+1DA3C", "U+1DA3D",
         "U+1DA3E", "U+1DA3F", "U+1DA40", "U+1DA41", "U+1DA42", "U+1DA43",
         "U+1DA44", "U+1DA45", "U+1DA46", "U+1DA47", "U+1DA48", "U+1DA49",
         "U+1DA4A", "U+1DA4B", "U+1DA4C", "U+1DA4D", "U+1DA4E", "U+1DA4F",
         "U+1DA50", "U+1DA51", "U+1DA52", "U+1DA53", "U+1DA54", "U+1DA55",
         "U+1DA56", "U+1DA57", "U+1DA58", "U+1DA59", "U+1DA5A", "U+1DA5B",
         "U+1DA5C", "U+1DA5D", "U+1DA5E", "U+1DA5F", "U+1DA60", "U+1DA61",
         "U+1DA62", "U+1DA63", "U+1DA64", "U+1DA65", "U+1DA66", "U+1DA67",
         "U+1DA68", "U+1DA69", "U+1DA6A", "U+1DA6B", "U+1DA6C", "U+1DA75",
         "U+1DA84", "U+1DA9B", "U+1DA9C", "U+1DA9D", "U+1DA9E", "U+1DA9F",
         "U+1DAA1", "U+1DAA2", "U+1DAA3", "U+1DAA4", "U+1DAA5", "U+1DAA6",
         "U+1DAA7", "U+1DAA8", "U+1DAA9", "U+1DAAA", "U+1DAAB", "U+1DAAC",
         "U+1DAAD", "U+1DAAE", "U+1DAAF", "U+1E000", "U+1E001", "U+1E002",
         "U+1E003", "U+1E004", "U+1E005", "U+1E006", "U+1E008", "U+1E009",
         "U+1E00A", "U+1E00B", "U+1E00C", "U+1E00D", "U+1E00E", "U+1E00F",
         "U+1E010", "U+1E011", "U+1E012", "U+1E013", "U+1E014", "U+1E015",
         "U+1E016", "U+1E017", "U+1E018", "U+1E01B", "U+1E01C", "U+1E01D",
         "U+1E01E", "U+1E01F", "U+1E020", "U+1E021", "U+1E023", "U+1E024",
         "U+1E026", "U+1E027", "U+1E028", "U+1E029", "U+1E02A", "U+1E130",
         "U+1E131", "U+1E132", "U+1E133", "U+1E134", "U+1E135", "U+1E136",
         "U+1E137", "U+1E138", "U+1E139", "U+1E13A", "U+1E13B", "U+1E13C",
         "U+1E13D", "U+1E2AE", "U+1E2EC", "U+1E2ED", "U+1E2EE", "U+1E2EF",
         "U+1E8D0", "U+1E8D1", "U+1E8D2", "U+1E8D3", "U+1E8D4", "U+1E8D5",
         "U+1E8D6", "U+1E944", "U+1E945", "U+1E946", "U+1E947", "U+1E948",
         "U+1E949", "U+1E94A", "U+1E94B", "U+1F3FB", "U+1F3FC", "U+1F3FD",
         "U+1F3FE", "U+1F3FF", "U+E0001", "U+E0020", "U+E0021", "U+E0022",
         "U+E0023", "U+E0024", "U+E0025", "U+E0026", "U+E0027", "U+E0028",
         "U+E0029", "U+E002A", "U+E002B", "U+E002C", "U+E002D", "U+E002E",
         "U+E002F", "U+E0030", "U+E0031", "U+E0032", "U+E0033", "U+E0034",
         "U+E0035", "U+E0036", "U+E0037", "U+E0038", "U+E0039", "U+E003A",
         "U+E003B", "U+E003C", "U+E003D", "U+E003E", "U+E003F", "U+E0040",
         "U+E0041", "U+E0042", "U+E0043", "U+E0044", "U+E0045", "U+E0046",
         "U+E0047", "U+E0048", "U+E0049", "U+E004A", "U+E004B", "U+E004C",
         "U+E004D", "U+E004E", "U+E004F", "U+E0050", "U+E0051", "U+E0052",
         "U+E0053", "U+E0054", "U+E0055", "U+E0056", "U+E0057", "U+E0058",
         "U+E0059", "U+E005A", "U+E005B", "U+E005C", "U+E005D", "U+E005E",
         "U+E005F", "U+E0060", "U+E0061", "U+E0062", "U+E0063", "U+E0064",
         "U+E0065", "U+E0066", "U+E0067", "U+E0068", "U+E0069", "U+E006A",
         "U+E006B", "U+E006C", "U+E006D", "U+E006E", "U+E006F", "U+E0070",
         "U+E0071", "U+E0072", "U+E0073", "U+E0074", "U+E0075", "U+E0076",
         "U+E0077", "U+E0078", "U+E0079", "U+E007A", "U+E007B", "U+E007C",
         "U+E007D", "U+E007E", "U+E007F", "U+E0100", "U+E0101", "U+E0102",
         "U+E0103", "U+E0104", "U+E0105", "U+E0106", "U+E0107", "U+E0108",
         "U+E0109", "U+E010A", "U+E010B", "U+E010C", "U+E010D", "U+E010E",
         "U+E010F", "U+E0110", "U+E0111", "U+E0112", "U+E0113", "U+E0114",
         "U+E0115", "U+E0116", "U+E0117", "U+E0118", "U+E0119", "U+E011A",
         "U+E011B", "U+E011C", "U+E011D", "U+E011E", "U+E011F", "U+E0120",
         "U+E0121", "U+E0122", "U+E0123", "U+E0124", "U+E0125", "U+E0126",
         "U+E0127", "U+E0128", "U+E0129", "U+E012A", "U+E012B", "U+E012C",
         "U+E012D", "U+E012E", "U+E012F", "U+E0130", "U+E0131", "U+E0132",
         "U+E0133", "U+E0134", "U+E0135", "U+E0136", "U+E0137", "U+E0138",
         "U+E0139", "U+E013A", "U+E013B", "U+E013C", "U+E013D", "U+E013E",
         "U+E013F", "U+E0140", "U+E0141", "U+E0142", "U+E0143", "U+E0144",
         "U+E0145", "U+E0146", "U+E0147", "U+E0148", "U+E0149", "U+E014A",
         "U+E014B", "U+E014C", "U+E014D", "U+E014E", "U+E014F", "U+E0150",
         "U+E0151", "U+E0152", "U+E0153", "U+E0154", "U+E0155", "U+E0156",
         "U+E0157", "U+E0158", "U+E0159", "U+E015A", "U+E015B", "U+E015C",
         "U+E015D", "U+E015E", "U+E015F", "U+E0160", "U+E0161", "U+E0162",
         "U+E0163", "U+E0164", "U+E0165", "U+E0166", "U+E0167", "U+E0168",
         "U+E0169", "U+E016A", "U+E016B", "U+E016C", "U+E016D", "U+E016E",
         "U+E016F", "U+E0170", "U+E0171", "U+E0172", "U+E0173", "U+E0174",
         "U+E0175", "U+E0176", "U+E0177", "U+E0178", "U+E0179", "U+E017A",
         "U+E017B", "U+E017C", "U+E017D", "U+E017E", "U+E017F", "U+E0180",
         "U+E0181", "U+E0182", "U+E0183", "U+E0184", "U+E0185", "U+E0186",
         "U+E0187", "U+E0188", "U+E0189", "U+E018A", "U+E018B", "U+E018C",
         "U+E018D", "U+E018E", "U+E018F", "U+E0190", "U+E0191", "U+E0192",
         "U+E0193", "U+E0194", "U+E0195", "U+E0196", "U+E0197", "U+E0198",
         "U+E0199", "U+E019A", "U+E019B", "U+E019C", "U+E019D", "U+E019E",
         "U+E019F", "U+E01A0", "U+E01A1", "U+E01A2", "U+E01A3", "U+E01A4",
         "U+E01A5", "U+E01A6", "U+E01A7", "U+E01A8", "U+E01A9", "U+E01AA",
         "U+E01AB", "U+E01AC", "U+E01AD", "U+E01AE", "U+E01AF", "U+E01B0",
         "U+E01B1", "U+E01B2", "U+E01B3", "U+E01B4", "U+E01B5", "U+E01B6",
         "U+E01B7", "U+E01B8", "U+E01B9", "U+E01BA", "U+E01BB", "U+E01BC",
         "U+E01BD", "U+E01BE", "U+E01BF", "U+E01C0", "U+E01C1", "U+E01C2",
         "U+E01C3", "U+E01C4", "U+E01C5", "U+E01C6", "U+E01C7", "U+E01C8",
         "U+E01C9", "U+E01CA", "U+E01CB", "U+E01CC", "U+E01CD", "U+E01CE",
         "U+E01CF", "U+E01D0", "U+E01D1", "U+E01D2", "U+E01D3", "U+E01D4",
         "U+E01D5", "U+E01D6", "U+E01D7", "U+E01D8", "U+E01D9", "U+E01DA",
         "U+E01DB", "U+E01DC", "U+E01DD", "U+E01DE", "U+E01DF", "U+E01E0",
         "U+E01E1", "U+E01E2", "U+E01E3", "U+E01E4", "U+E01E5", "U+E01E6",
         "U+E01E7", "U+E01E8", "U+E01E9", "U+E01EA", "U+E01EB", "U+E01EC",
         "U+E01ED", "U+E01EE", "U+E01EF"}]

\* c.lower() of a character above U+00FF that lowers to one character
LowerWide(c) ==
    CASE c = "U+0100" -> "U+0101"
      [] c = "U+0102" -> "U+0103"
      [] c = "U+0104" -> "U+0105"
      [] c = "U+0106" -> "U+0107"
      [] c = "U+0108" -> "U+0109"
      [] c = "U+010A" -> "U+010B"
      [] c = "U+010C" -> "U+010D"
      [] c = "U+010E" -> "U+010F"
      [] c = "U+0110" -> "U+0111"
      [] c = "U+0112" -> "U+0113"
      [] c = "U+0114" -> "U+0115"
      [] c = "U+0116" -> "U+0117"
      [] c = "U+0118" -> "U+0119"
      [] c = "U+011A" -> "U+011B"
      [] c = "U+011C" -> "U+011D"
      [] c = "U+011E" -> "U+011F"
      [] c = "U+0120" -> "U+0121"
      [] c = "U+0122" -> "U+0123"
      [] c = "U+0124" -> "U+0125"
      [] c = "U+0126" -> "U+0127"
      [] c = "U+0128" -> "U+0129"
      [] c = "U+012A" -> "U+012B"
      [] c = "U+012C" -> "U+012D"
      [] c = "U+012E" -> "U+012F"
      [] c = "U+0132" -> "U+0133"
      [] c = "U+0134" -> "U+0135"
      [] c = "U+0136" -> "U+0137"
      [] c = "U+0139" -> "U+013A"
      [] c = "U+013B" -> "U+013C"
      [] c = "U+013D" -> "U+013E"
      [] c = "U+013F" -> "U+0140"
      [] c = "U+0141" -> "U+0142"
      [] c = "U+0143" -> "U+0144"
      [] c = "U+0145" -> "U+0146"
      [] c = "U+0147" -> "U+0148"
      [] c = "U+014A" -> "U+014B"
      [] c = "U+014C" -> "U+014D"
      [] c = "U+014E" -> "U+014F"
      [] c = "U+0150" -> "U+0151"
      [] c = "U+0152" -> "U+0153"
      [] c = "U+0154" -> "U+0155"
      [] c = "U+0156" -> "U+0157"
      [] c = "U+0158" -> "U+0159"
      [] c = "U+015A" -> "U+015B"
      [] c = "U+015C" -> "U+015D"
      [] c = "U+015E" -> "U+015F"
      [] c = "U+0160" -> "U+0161"
      [] c = "U+0162" -> "U+0163"
      [] c = "U+0164" -> "U+0165"
      [] c = "U+0166" -> "U+0167"
      [] c = "U+0168" -> "U+0169"
      [] c = "U+016A" -> "U+016B"
      [] c = "U+016C" -> "U+016D"
      [] c = "U+016E" -> "U+016F"
      [] c = "U+0170" -> "U+0171"
      [] c = "U+0172" -> "U+0173"
      [] c = "U+0174" -> "U+0175"
      [] c = "U+0176" -> "U+0177"
      [] c = "U+0178" -> "ÿ"
      [] c = "U+0179" -> "U+017A"
      [] c = "U+017B" -> "U+017C"
      [] c = "U+017D" -> "U+017E"
      [] c = "U+0181" -> "U+0253"
      [] c = "U+0182" -> "U+0183"
      [] c = "U+0184" -> "U+0185"
      [] c = "U+0186" -> "U+0254"
      [] c = "U+0187" -> "U+0188"
      [] c = "U+0189" -> "U+0256"
      [] c = "U+018A" -> "U+0257"
      [] c = "U+018B" -> "U+018C"
      [] c = "U+018E" -> "U+01DD"
      [] c = "U+018F" -> "U+0259"
      [] c = "U+0190" -> "U+025B"
      [] c = "U+0191" -> "U+0192"
      [] c = "U+0193" -> "U+0260"
      [] c = "U+0194" -> "U+0263"
      [] c = "U+0196" -> "U+0269"
      [] c = "U+0197" -> "U+0268"
      [] c = "U+0198" -> "U+0199"
      [] c = "U+019C" -> "U+026F"
      [] c = "U+019D" -> "U+0272"
      [] c = "U+019F" -> "U+0275"
      [] c = "U+01A0" -> "U+01A1"
      [] c = "U+01A2" -> "U+01A3"
      [] c = "U+01A4" -> "U+01A5"
      [] c = "U+01A6" -> "U+0280"
      [] c = "U+01A7" -> "U+01A8"
      [] c = "U+01A9" -> "U+0283"
      [] c = "U+01AC" -> "U+01AD"
      [] c = "U+01AE" -> "U+0288"
      [] c = "U+01AF" -> "U+01B0"
      [] c = "U+01B1" -> "U+028A"
      [] c = "U+01B2" -> "U+028B"
      [] c = "U+01B3" -> "U+01B4"
      [] c = "U+01B5" -> "U+01B6"
      [] c = "U+01B7" -> "U+0292"
      [] c = "U+01B8" -> "U+01B9"
      [] c = "U+01BC" -> "U+01BD"
      [] c = "U+01C4" -> "U+01C6"
      [] c = "U+01C5" -> "U+01C6"
      [] c = "U+01C7" -> "U+01C9"
      [] c = "U+01C8" -> "U+01C9"
      [] c = "U+01CA" -> "U+01CC"
      [] c = "U+01CB" -> "U+01CC"
      [] c = "U+01CD" -> "U+01CE"
      [] c = "U+01CF" -> "U+01D0"
      [] c = "U+01D1" -> "U+01D2"
      [] c = "U+01D3" -> "U+01D4"
      [] c = "U+01D5" -> "U+01D6"
      [] c = "U+01D7" -> "U+01D8"
      [] c = "U+01D9" -> "U+01DA"
      [] c = "U+01DB" -> "U+01DC"
      [] c = "U+01DE" -> "U+01DF"
      [] c = "U+01E0" -> "U+01E1"
      [] c = "U+01E2" -> "U+01E3"
      [] c = "U+01E4" -> "U+01E5"
      [] c = "U+01E6" -> "U+01E7"
      [] c = "U+01E8" -> "U+01E9"
      [] c = "U+01EA" -> "U+01EB"
      [] c = "U+01EC" -> "U+01ED"
      [] c = "U+01EE" -> "U+01EF"
      [] c = "U+01F1" -> "U+01F3"
      [] c = "U+01F2" -> "U+01F3"
      [] c = "U+01F4" -> "U+01F5"
      [] c = "U+01F6" -> "U+0195"
      [] c = "U+01F7" -> "U+01BF"
      [] c = "U+01F8" -> "U+01F9"
      [] c = "U+01FA" -> "U+01FB"
      [] c = "U+01FC" -> "U+01FD"
      [] c = "U+01FE" -> "U+01FF"
      [] c = "U+0200" -> "U+0201"
      [] c = "U+0202" -> "U+0203"
      [] c = "U+0204" -> "U+0205"
      [] c = "U+0206" -> "U+0207"
      [] c = "U+0208" -> "U+0209"
      [] c = "U+020A" -> "U+020B"
      [] c = "U+020C" -> "U+020D"
      [] c = "U+020E" -> "U+020F"
      [] c = "U+0210" -> "U+0211"
      [] c = "U+0212" -> "U+0213"
      [] c = "U+0214" -> "U+0215"
      [] c = "U+0216" -> "U+0217"
      [] c = "U+0218" -> "U+0219"
      [] c = "U+021A" -> "U+021B"
      [] c = "U+021C" -> "U+021D"
      [] c = "U+021E" -> "U+021F"
      [] c = "U+0220" -> "U+019E"
      [] c = "U+0222" -> "U+0223"
      [] c = "U+0224" -> "U+0225"
      [] c = "U+0226" -> "U+0227"
      [] c = "U+0228" -> "U+0229"
      [] c = "U+022A" -> "U+022B"
      [] c = "U+022C" -> "U+022D"
      [] c = "U+022E" -> "U+022F"
      [] c = "U+0230" -> "U+0231"
      [] c = "U+0232" -> "U+0233"
      [] c = "U+023A" -> "U+2C65"
      [] c = "U+023B" -> "U+023C"
      [] c = "U+023D" -> "U+019A"
      [] c = "U+023E" -> "U+2C66"
      [] c = "U+0241" -> "U+0242"
      [] c = "U+0243" -> "U+0180"
      [] c = "U+0244" -> "U+0289"
      [] c = "U+0245" -> "U+028C"
      [] c = "U+0246" -> "U+0247"
      [] c = "U+0248" -> "U+0249"
      [] c = "U+024A" -> "U+024B"
      [] c = "U+024C" -> "U+024D"
      [] c = "U+024E" -> "U+024F"
      [] c = "U+0370" -> "U+0371"
      [] c = "U+0372" -> "U+0373"
      [] c = "U+0376" -> "U+0377"
      [] c = "U+037F" -> "U+03F3"
      [] c = "U+0386" -> "U+03AC"
      [] c = "U+0388" -> "U+03AD"
      [] c = "U+0389" -> "U+03AE"
      [] c = "U+038A" -> "U+03AF"
      [] c = "U+038C" -> "U+03CC"
      [] c = "U+038E" -> "U+03CD"
      [] c = "U+038F" -> "U+03CE"
      [] c = "U+0391" -> "U+03B1"
      [] c = "U+0392" -> "U+03B2"
      [] c = "U+0393" -> "U+03B3"
      [] c = "U+0394" -> "U+03B4"
      [] c = "U+0395" -> "U+03B5"
      [] c = "U+0396" -> "U+03B6"
      [] c = "U+0397" -> "U+03B7"
      [] c = "U+0398" -> "U+03B8"
      [] c = "U+0399" -> "U+03B9"
      [] c = "U+039A" -> "U+03BA"
      [] c = "U+039B" -> "U+03BB"
      [] c = "U+039C" -> "U+03BC"
      [] c = "U+039D" -> "U+03BD"
      [] c = "U+039E" -> "U+03BE"
      [] c = "U+039F" -> "U+03BF"
      [] c = "U+03A0" -> "U+03C0"
      [] c = "U+03A1" -> "U+03C1"
      [] c = "U+03A3" -> "U+03C3"
      [] c = "U+03A4" -> "U+03C4"
      [] c = "U+03A5" -> "U+03C5"
      [] c = "U+03A6" -> "U+03C6"
      [] c = "U+03A7" -> "U+03C7"
      [] c = "U+03A8" -> "U+03C8"
      [] c = "U+03A9" -> "U+03C9"
      [] c = "U+03AA" -> "U+03CA"
      [] c = "U+03AB" -> "U+03CB"
      [] c = "U+03CF" -> "U+03D7"
      [] c = "U+03D8" -> "U+03D9"
      [] c = "U+03DA" -> "U+03DB"
      [] c = "U+03DC" -> "U+03DD"
      [] c = "U+03DE" -> "U+03DF"
      [] c = "U+03E0" -> "U+03E1"
      [] c = "U+03E2" -> "U+03E3"
      [] c = "U+03E4" -> "U+03E5"
      [] c = "U+03E6" -> "U+03E7"
      [] c = "U+03E8" -> "U+03E9"
      [] c = "U+03EA" -> "U+03EB"
      [] c = "U+03EC" -> "U+03ED"
      [] c = "U+03EE" -> "U+03EF"
      [] c = "U+03F4" -> "U+03B8"
      [] c = "U+03F7" -> "U+03F8"
      [] c = "U+03F9" -> "U+03F2"
      [] c = "U+03FA" -> "U+03FB"
      [] c = "U+03FD" -> "U+037B"
      [] c = "U+03FE" -> "U+037C"
      [] c = "U+03FF" -> "U+037D"
      [] c = "U+0400" -> "U+0450"
      [] c = "U+0401" -> "U+0451"
      [] c = "U+0402" -> "U+0452"
      [] c = "U+0403" -> "U+0453"
      [] c = "U+0404" -> "U+0454"
      [] c = "U+0405" -> "U+0455"
      [] c = "U+0406" -> "U+0456"
      [] c = "U+0407" -> "U+0457"
      [] c = "U+0408" -> "U+0458"
      [] c = "U+0409" -> "U+0459"
      [] c = "U+040A" -> "U+045A"
      [] c = "U+040B" -> "U+045B"
      [] c = "U+040C" -> "U+045C"
      [] c = "U+040D" -> "U+045D"
      [] c = "U+040E" -> "U+045E"
      [] c = "U+040F" -> "U+045F"
      [] c = "U+0410" -> "U+0430"
      [] c = "U+0411" -> "U+0431"
      [] c = "U+0412" -> "U+0432"
      [] c = "U+0413" -> "U+0433"
      [] c = "U+0414" -> "U+0434"
      [] c = "U+0415" -> "U+0435"
      [] c = "U+0416" -> "U+0436"
      [] c = "U+0417" -> "U+0437"
      [] c = "U+0418" -> "U+0438"
      [] c = "U+0419" -> "U+0439"
      [] c = "U+041A" -> "U+043A"
      [] c = "U+041B" -> "U+043B"
      [] c = "U+041C" -> "U+043C"
      [] c = "U+041D" -> "U+043D"
      [] c = "U+041E" -> "U+043E"
      [] c = "U+041F" -> "U+043F"
      [] c = "U+0420" -> "U+0440"
      [] c = "U+0421" -> "U+0441"
      [] c = "U+0422" -> "U+0442"
      [] c = "U+0423" -> "U+0443"
      [] c = "U+0424" -> "U+0444"
      [] c = "U+0425" -> "U+0445"
      [] c = "U+0426" -> "U+0446"
      [] c = "U+0427" -> "U+0447"
      [] c = "U+0428" -> "U+0448"
      [] c = "U+0429" -> "U+0449"
      [] c = "U+042A" -> "U+044A"
      [] c = "U+042B" -> "U+044B"
      [] c = "U+042C" -> "U+044C"
      [] c = "U+042D" -> "U+044D"
      [] c = "U+042E" -> "U+044E"
      [] c = "U+042F" -> "U+044F"
      [] c = "U+0460" -> "U+0461"
      [] c = "U+0462" -> "U+0463"
      [] c = "U+0464" -> "U+0465"
      [] c = "U+0466" -> "U+0467"
      [] c = "U+0468" -> "U+0469"
      [] c = "U+046A" -> "U+046B"
      [] c = "U+046C" -> "U+046D"
      [] c = "U+046E" -> "U+046F"
      [] c = "U+0470" -> "U+0471"
      [] c = "U+0472" -> "U+0473"
      [] c = "U+0474" -> "U+0475"
      [] c = "U+0476" -> "U+0477"
      [] c = "U+0478" -> "U+0479"
      [] c = "U+047A" -> "U+047B"
      [] c = "U+047C" -> "U+047D"
      [] c = "U+047E" -> "U+047F"
      [] c = "U+0480" -> "U+0481"
      [] c = "U+048A" -> "U+048B"
      [] c = "U+048C" -> "U+048D"
      [] c = "U+048E" -> "U+048F"
      [] c = "U+0490" -> "U+0491"
      [] c = "U+0492" -> "U+0493"
      [] c = "U+0494" -> "U+0495"
      [] c = "U+0496" -> "U+0497"
      [] c = "U+0498" -> "U+0499"
      [] c = "U+049A" -> "U+049B"
      [] c = "U+049C" -> "U+049D"
      [] c = "U+049E" -> "U+049F"
      [] c = "U+04A0" -> "U+04A1"
      [] c = "U+04A2" -> "U+04A3"
      [] c = "U+04A4" -> "U+04A5"
      [] c = "U+04A6" -> "U+04A7"
      [] c = "U+04A8" -> "U+04A9"
      [] c = "U+04AA" -> "U+04AB"
      [] c = "U+04AC" -> "U+04AD"
      [] c = "U+04AE" -> "U+04AF"
      [] c = "U+04B0" -> "U+04B1"
      [] c = "U+04B2" -> "U+04B3"
      [] c = "U+04B4" -> "U+04B5"
      [] c = "U+04B6" -> "U+04B7"
      [] c = "U+04B8" -> "U+04B9"
      [] c = "U+04BA" -> "U+04BB"
      [] c = "U+04BC" -> "U+04BD"
      [] c = "U+04BE" -> "U+04BF"
      [] c = "U+04C0" -> "U+04CF"
      [] c = "U+04C1" -> "U+04C2"
      [] c = "U+04C3" -> "U+04C4"
      [] c = "U+04C5" -> "U+04C6"
      [] c = "U+04C7" -> "U+04C8"
      [] c = "U+04C9" -> "U+04CA"
      [] c = "U+04CB" -> "U+04CC"
      [] c = "U+04CD" -> "U+04CE"
      [] c = "U+04D0" -> "U+04D1"
      [] c = "U+04D2" -> "U+04D3"
      [] c = "U+04D4" -> "U+04D5"
      [] c = "U+04D6" -> "U+04D7"
      [] c = "U+04D8" -> "U+04D9"
      [] c = "U+04DA" -> "U+04DB"
      [] c = "U+04DC" -> "U+04DD"
      [] c = "U+04DE" -> "U+04DF"
      [] c = "U+04E0" -> "U+04E1"
      [] c = "U+04E2" -> "U+04E3"
      [] c = "U+04E4" -> "U+04E5"
      [] c = "U+04E6" -> "U+04E7"
      [] c = "U+04E8" -> "U+04E9"
      [] c = "U+04EA" -> "U+04EB"
      [] c = "U+04EC" -> "U+04ED"
      [] c = "U+04EE" -> "U+04EF"
      [] c = "U+04F0" -> "U+04F1"
      [] c = "U+04F2" -> "U+04F3"
      [] c = "U+04F4" -> "U+04F5"
      [] c = "U+04F6" -> "U+04F7"
      [] c = "U+04F8" -> "U+04F9"
      [] c = "U+04FA" -> "U+04FB"
      [] c = "U+04FC" -> "U+04FD"
      [] c = "U+04FE" -> "U+04FF"
      [] c = "U+0500" -> "U+0501"
      [] c = "U+0502" -> "U+0503"
      [] c = "U+0504" -> "U+0505"
      [] c = "U+0506" -> "U+0507"
      [] c = "U+0508" -> "U+0509"
      [] c = "U+050A" -> "U+050B"
      [] c = "U+050C" -> "U+050D"
      [] c = "U+050E" -> "U+050F"
      [] c = "U+0510" -> "U+0511"
      [] c = "U+0512" -> "U+0513"
      [] c = "U+0514" -> "U+0515"
      [] c = "U+0516" -> "U+0517"
      [] c = "U+0518" -> "U+0519"
      [] c = "U+051A" -> "U+051B"
      [] c = "U+051C" -> "U+051D"
      [] c = "U+051E" -> "U+051F"
      [] c = "U+0520" -> "U+0521"
      [] c = "U+0522" -> "U+0523"
      [] c = "U+0524" -> "U+0525"
      [] c = "U+0526" -> "U+0527"
      [] c = "U+0528" -> "U+0529"
      [] c = "U+052A" -> "U+052B"
      [] c = "U+052C" -> "U+052D"
      [] c = "U+052E" -> "U+052F"
      [] c = "U+0531" -> "U+0561"
      [] c = "U+0532" -> "U+0562"
      [] c = "U+0533" -> "U+0563"
      [] c = "U+0534" -> "U+0564"
      [] c = "U+0535" -> "U+0565"
      [] c = "U+0536" -> "U+0566"
      [] c = "U+0537" -> "U+0567"
      [] c = "U+0538" -> "U+0568"
      [] c = "U+0539" -> "U+0569"
      [] c = "U+053A" -> "U+056A"
      [] c = "U+053B" -> "U+056B"
      [] c = "U+053C" -> "U+056C"
      [] c = "U+053D" -> "U+056D"
      [] c = "U+053E" -> "U+056E"
      [] c = "U+053F" -> "U+056F"
      [] c = "U+0540" -> "U+0570"
      [] c = "U+0541" -> "U+0571"
      [] c = "U+0542" -> "U+0572"
      [] c = "U+0543" -> "U+0573"
      [] c = "U+0544" -> "U+0574"
      [] c = "U+0545" -> "U+0575"
      [] c = "U+0546" -> "U+0576"
      [] c = "U+0547" -> "U+0577"
      [] c = "U+0548" -> "U+0578"
      [] c = "U+0549" -> "U+0579"
      [] c = "U+054A" -> "U+057A"
      [] c = "U+054B" -> "U+057B"
      [] c = "U+054C" -> "U+057C"
      [] c = "U+054D" -> "U+057D"
      [] c = "U+054E" -> "U+057E"
      [] c = "U+054F" -> "U+057F"
      [] c = "U+0550" -> "U+0580"
      [] c = "U+0551" -> "U+0581"
      [] c = "U+0552" -> "U+0582"
      [] c = "U+0553" -> "U+0583"
      [] c = "U+0554" -> "U+0584"
      [] c = "U+0555" -> "U+0585"
      [] c = "U+0556" -> "U+0586"
      [] c = "U+10A0" -> "U+2D00"
      [] c = "U+10A1" -> "U+2D01"
      [] c = "U+10A2" -> "U+2D02"
      [] c = "U+10A3" -> "U+2D03"
      [] c = "U+10A4" -> "U+2D04"
      [] c = "U+10A5" -> "U+2D05"
      [] c = "U+10A6" -> "U+2D06"
      [] c = "U+10A7" -> "U+2D07"
      [] c = "U+10A8" -> "U+2D08"
      [] c = "U+10A9" -> "U+2D09"
      [] c = "U+10AA" -> "U+2D0A"
      [] c = "U+10AB" -> "U+2D0B"
      [] c = "U+10AC" -> "U+2D0C"
      [] c = "U+10AD" -> "U+2D0D"
      [] c = "U+10AE" -> "U+2D0E"
      [] c = "U+10AF" -> "U+2D0F"
      [] c = "U+10B0" -> "U+2D10"
      [] c = "U+10B1" -> "U+2D11"
      [] c = "U+10B2" -> "U+2D12"
      [] c = "U+10B3" -> "U+2D13"
      [] c = "U+10B4" -> "U+2D14"
      [] c = "U+10B5" -> "U+2D15"
      [] c = "U+10B6" -> "U+2D16"
      [] c = "U+10B7" -> "U+2D17"
      [] c = "U+10B8" -> "U+2D18"
      [] c = "U+10B9" -> "U+2D19"
      [] c = "U+10BA" -> "U+2D1A"
      [] c = "U+10BB" -> "U+2D1B"
      [] c = "U+10BC" -> "U+2D1C"
      [] c = "U+10BD" -> "U+2D1D"
      [] c = "U+10BE" -> "U+2D1E"
      [] c = "U+10BF" -> "U+2D1F"
      [] c = "U+10C0" -> "U+2D20"
      [] c = "U+10C1" -> "U+2D21"
      [] c = "U+10C2" -> "U+2D22"
      [] c = "U+10C3" -> "U+2D23"
      [] c = "U+10C4" -> "U+2D24"
      [] c = "U+10C5" -> "U+2D25"
      [] c = "U+10C7" -> "U+2D27"
      [] c = "U+10CD" -> "U+2D2D"
      [] c = "U+13A0" -> "U+AB70"
      [] c = "U+13A1" -> "U+AB71"
      [] c = "U+13A2" -> "U+AB72"
      [] c = "U+13A3" -> "U+AB73"
      [] c = "U+13A4" -> "U+AB74"
      [] c = "U+13A5" -> "U+AB75"
      [] c = "U+13A6" -> "U+AB76"
      [] c = "U+13A7" -> "U+AB77"
      [] c = "U+13A8" -> "U+AB78"
      [] c = "U+13A9" -> "U+AB79"
      [] c = "U+13AA" -> "U+AB7A"
      [] c = "U+13AB" -> "U+AB7B"
      [] c = "U+13AC" -> "U+AB7C"
      [] c = "U+13AD" -> "U+AB7D"
      [] c = "U+13AE" -> "U+AB7E"
      [] c = "U+13AF" -> "U+AB7F"
      [] c = "U+13B0" -> "U+AB80"
      [] c = "U+13B1" -> "U+AB81"
      [] c = "U+13B2" -> "U+AB82"
      [] c = "U+13B3" -> "U+AB83"
      [] c = "U+13B4" -> "U+AB84"
      [] c = "U+13B5" -> "U+AB85"
      [] c = "U+13B6" -> "U+AB86"
      [] c = "U+13B7" -> "U+AB87"
      [] c = "U+13B8" -> "U+AB88"
      [] c = "U+13B9" -> "U+AB89"
      [] c = "U+13BA" -> "U+AB8A"
      [] c = "U+13BB" -> "U+AB8B"
      [] c = "U+13BC" -> "U+AB8C"
      [] c = "U+13BD" -> "U+AB8D"
      [] c = "U+13BE" -> "U+AB8E"
      [] c = "U+13BF" -> "U+AB8F"
      [] c = "U+13C0" -> "U+AB90"
      [] c = "U+13C1" -> "U+AB91"
      [] c = "U+13C2" -> "U+AB92"
      [] c = "U+13C3" -> "U+AB93"
      [] c = "U+13C4" -> "U+AB94"
      [] c = "U+13C5" -> "U+AB95"
      [] c = "U+13C6" -> "U+AB96"
      [] c = "U+13C7" -> "U+AB97"
      [] c = "U+13C8" -> "U+AB98"
      [] c = "U+13C9" -> "U+AB99"
      [] c = "U+13CA" -> "U+AB9A"
      [] c = "U+13CB" -> "U+AB9B"
      [] c = "U+13CC" -> "U+AB9C"
      [] c = "U+13CD" -> "U+AB9D"
      [] c = "U+13CE" -> "U+AB9E"
      [] c = "U+13CF" -> "U+AB9F"
      [] c = "U+13D0" -> "U+ABA0"
      [] c = "U+13D1" -> "U+ABA1"
      [] c = "U+13D2" -> "U+ABA2"
      [] c = "U+13D3" -> "U+ABA3"
      [] c = "U+13D4" -> "U+ABA4"
      [] c = "U+13D5" -> "U+ABA5"
      [] c = "U+13D6" -> "U+ABA6"
      [] c = "U+13D7" -> "U+ABA7"
      [] c = "U+13D8" -> "U+ABA8"
      [] c = "U+13D9" -> "U+ABA9"
      [] c = "U+13DA" -> "U+ABAA"
      [] c = "U+13DB" -> "U+ABAB"
      [] c = "U+13DC" -> "U+ABAC"
      [] c = "U+13DD" -> "U+ABAD"
      [] c = "U+13DE" -> "U+ABAE"
      [] c = "U+13DF" -> "U+ABAF"
      [] c = "U+13E0" -> "U+ABB0"
      [] c = "U+13E1" -> "U+ABB1"
      [] c = "U+13E2" -> "U+ABB2"
      [] c = "U+13E3" -> "U+ABB3"
      [] c = "U+13E4" -> "U+ABB4"
      [] c = "U+13E5" -> "U+ABB5"
      [] c = "U+13E6" -> "U+ABB6"
      [] c = "U+13E7" -> "U+ABB7"
      [] c = "U+13E8" -> "U+ABB8"
      [] c = "U+13E9" -> "U+ABB9"
      [] c = "U+13EA" -> "U+ABBA"
      [] c = "U+13EB" -> "U+ABBB"
      [] c = "U+13EC" -> "U+ABBC"
      [] c = "U+13ED" -> "U+ABBD"
      [] c = "U+13EE" -> "U+ABBE"
      [] c = "U+13EF" -> "U+ABBF"
      [] c = "U+13F0" -> "U+13F8"
      [] c = "U+13F1" -> "U+13F9"
      [] c = "U+13F2" -> "U+13FA"
      [] c = "U+13F3" -> "U+13FB"
      [] c = "U+13F4" -> "U+13FC"
      [] c = "U+13F5" -> "U+13FD"
      [] c = "U+1C90" -> "U+10D0"
      [] c = "U+1C91" -> "U+10D1"
      [] c = "U+1C92" -> "U+10D2"
      [] c = "U+1C93" -> "U+10D3"
      [] c = "U+1C94" -> "U+10D4"
      [] c = "U+1C95" -> "U+10D5"
      [] c = "U+1C96" -> "U+10D6"
      [] c = "U+1C97" -> "U+10D7"
      [] c = "U+1C98" -> "U+10D8"
      [] c = "U+1C99" -> "U+10D9"
      [] c = "U+1C9A" -> "U+10DA"
      [] c = "U+1C9B" -> "U+10DB"
      [] c = "U+1C9C" -> "U+10DC"
      [] c = "U+1C9D" -> "U+10DD"
      [] c = "U+1C9E" -> "U+10DE"
      [] c = "U+1C9F" -> "U+10DF"
      [] c = "U+1CA0" -> "U+10E0"
      [] c = "U+1CA1" -> "U+10E1"
      [] c = "U+1CA2" -> "U+10E2"
      [] c = "U+1CA3" -> "U+10E3"
      [] c = "U+1CA4" -> "U+10E4"
      [] c = "U+1CA5" -> "U+10E5"
      [] c = "U+1CA6" -> "U+10E6"
      [] c = "U+1CA7" -> "U+10E7"
      [] c = "U+1CA8" -> "U+10E8"
      [] c = "U+1CA9" -> "U+10E9"
      [] c = "U+1CAA" -> "U+10EA"
      [] c = "U+1CAB" -> "U+10EB"
      [] c = "U+1CAC" -> "U+10EC"
      [] c = "U+1CAD" -> "U+10ED"
      [] c = "U+1CAE" -> "U+10EE"
      [] c = "U+1CAF" -> "U+10EF"
      [] c = "U+1CB0" -> "U+10F0"
      [] c = "U+1CB1" -> "U+10F1"
      [] c = "U+1CB2" -> "U+10F2"
      [] c = "U+1CB3" -> "U+10F3"
      [] c = "U+1CB4" -> "U+10F4"
      [] c = "U+1CB5" -> "U+10F5"
      [] c = "U+1CB6" -> "U+10F6"
      [] c = "U+1CB7" -> "U+10F7"
      [] c = "U+1CB8" -> "U+10F8"
      [] c = "U+1CB9" -> "U+10F9"
      [] c = "U+1CBA" -> "U+10FA"
      [] c = "U+1CBD" -> "U+10FD"
      [] c = "U+1CBE" -> "U+10FE"
      [] c = "U+1CBF" -> "U+10FF"
      [] c = "U+1E00" -> "U+1E01"
      [] c = "U+1E02" -> "U+1E03"
      [] c = "U+1E04" -> "U+1E05"
      [] c = "U+1E06" -> "U+1E07"
      [] c = "U+1E08" -> "U+1E09"
      [] c = "U+1E0A" -> "U+1E0B"
      [] c = "U+1E0C" -> "U+1E0D"
      [] c = "U+1E0E" -> "U+1E0F"
      [] c = "U+1E10" -> "U+1E11"
      [] c = "U+1E12" -> "U+1E13"
      [] c = "U+1E14" -> "U+1E15"
      [] c = "U+1E16" -> "U+1E17"
      [] c = "U+1E18" -> "U+1E19"
      [] c = "U+1E1A" -> "U+1E1B"
      [] c = "U+1E1C" -> "U+1E1D"
      [] c = "U+1E1E" -> "U+1E1F"
      [] c = "U+1E20" -> "U+1E21"
      [] c = "U+1E22" -> "U+1E23"
      [] c = "U+1E24" -> "U+1E25"
      [] c = "U+1E26" -> "U+1E27"
      [] c = "U+1E28" -> "U+1E29"
      [] c = "U+1E2A" -> "U+1E2B"
      [] c = "U+1E2C" -> "U+1E2D"
      [] c = "U+1E2E" -> "U+1E2F"
      [] c = "U+1E30" -> "U+1E31"
      [] c = "U+1E32" -> "U+1E33"
      [] c = "U+1E34" -> "U+1E35"
      [] c = "U+1E36" -> "U+1E37"
      [] c = "U+1E38" -> "U+1E39"
      [] c = "U+1E3A" -> "U+1E3B"
      [] c = "U+1E3C" -> "U+1E3D"
      [] c = "U+1E3E" -> "U+1E3F"
      [] c = "U+1E40" -> "U+1E41"
      [] c = "U+1E42" -> "U+1E43"
      [] c = "U+1E44" -> "U+1E45"
      [] c = "U+1E46" -> "U+1E47"
      [] c = "U+1E48" -> "U+1E49"
      [] c = "U+1E4A" -> "U+1E4B"
      [] c = "U+1E4C" -> "U+1E4D"
      [] c = "U+1E4E" -> "U+1E4F"
      [] c = "U+1E50" -> "U+1E51"
      [] c = "U+1E52" -> "U+1E53"
      [] c = "U+1E54" -> "U+1E55"
      [] c = "U+1E56" -> "U+1E57"
      [] c = "U+1E58" -> "U+1E59"
      [] c = "U+1E5A" -> "U+1E5B"
      [] c = "U+1E5C" -> "U+1E5D"
      [] c = "U+1E5E" -> "U+1E5F"
      [] c = "U+1E60" -> "U+1E61"
      [] c = "U+1E62" -> "U+1E63"
      [] c = "U+1E64" -> "U+1E65"
      [] c = "U+1E66" -> "U+1E67"
      [] c = "U+1E68" -> "U+1E69"
      [] c = "U+1E6A" -> "U+1E6B"
      [] c = "U+1E6C" -> "U+1E6D"
      [] c = "U+1E6E" -> "U+1E6F"
      [] c = "U+1E70" -> "U+1E71"
      [] c = "U+1E72" -> "U+1E73"
      [] c = "U+1E74" -> "U+1E75"
      [] c = "U+1E76" -> "U+1E77"
      [] c = "U+1E78" -> "U+1E79"
      [] c = "U+1E7A" -> "U+1E7B"
      [] c = "U+1E7C" -> "U+1E7D"
      [] c = "U+1E7E" -> "U+1E7F"
      [] c = "U+1E80" -> "U+1E81"
      [] c = "U+1E82" -> "U+1E83"
      [] c = "U+1E84" -> "U+1E85"
      [] c = "U+1E86" -> "U+1E87"
      [] c = "U+1E88" -> "U+1E89"
      [] c = "U+1E8A" -> "U+1E8B"
      [] c = "U+1E8C" -> "U+1E8D"
      [] c = "U+1E8E" -> "U+1E8F"
      [] c = "U+1E90" -> "U+1E91"
      [] c = "U+1E92" -> "U+1E93"
      [] c = "U+1E94" -> "U+1E95"
      [] c = "U+1E9E" -> "ß"
      [] c = "U+1EA0" -> "U+1EA1"
      [] c = "U+1EA2" -> "U+1EA3"
      [] c = "U+1EA4" -> "U+1EA5"
      [] c = "U+1EA6" -> "U+1EA7"
      [] c = "U+1EA8" -> "U+1EA9"
      [] c = "U+1EAA" -> "U+1EAB"
      [] c = "U+1EAC" -> "U+1EAD"
      [] c = "U+1EAE" -> "U+1EAF"
      [] c = "U+1EB0" -> "U+1EB1"
      [] c = "U+1EB2" -> "U+1EB3"
      [] c = "U+1EB4" -> "U+1EB5"
      [] c = "U+1EB6" -> "U+1EB7"
      [] c = "U+1EB8" -> "U+1EB9"
      [] c = "U+1EBA" -> "U+1EBB"
      [] c = "U+1EBC" -> "U+1EBD"
      [] c = "U+1EBE" -> "U+1EBF"
      [] c = "U+1EC0" -> "U+1EC1"
      [] c = "U+1EC2" -> "U+1EC3"
      [] c = "U+1EC4" -> "U+1EC5"
      [] c = "U+1EC6" -> "U+1EC7"
      [] c = "U+1EC8" -> "U+1EC9"
      [] c = "U+1ECA" -> "U+1ECB"
      [] c = "U+1ECC" -> "U+1ECD"
      [] c = "U+1ECE" -> "U+1ECF"
      [] c = "U+1ED0" -> "U+1ED1"
      [] c = "U+1ED2" -> "U+1ED3"
      [] c = "U+1ED4" -> "U+1ED5"
      [] c = "U+1ED6" -> "U+1ED7"
      [] c = "U+1ED8" -> "U+1ED9"
      [] c = "U+1EDA" -> "U+1EDB"
      [] c = "U+1EDC" -> "U+1EDD"
      [] c = "U+1EDE" -> "U+1EDF"
      [] c = "U+1EE0" -> "U+1EE1"
      [] c = "U+1EE2" -> "U+1EE3"
      [] c = "U+1EE4" -> "U+1EE5"
      [] c = "U+1EE6" -> "U+1EE7"
      [] c = "U+1EE8" -> "U+1EE9"
      [] c = "U+1EEA" -> "U+1EEB"
      [] c = "U+1EEC" -> "U+1EED"
      [] c = "U+1EEE" -> "U+1EEF"
      [] c = "U+1EF0" -> "U+1EF1"
      [] c = "U+1EF2" -> "U+1EF3"
      [] c = "U+1EF4" -> "U+1EF5"
      [] c = "U+1EF6" -> "U+1EF7"
      [] c = "U+1EF8" -> "U+1EF9"
      [] c = "U+1EFA" -> "U+1EFB"
      [] c = "U+1EFC" -> "U+1EFD"
      [] c = "U+1EFE" -> "U+1EFF"
      [] c = "U+1F08" -> "U+1F00"
      [] c = "U+1F09" -> "U+1F01"
      [] c = "U+1F0A" -> "U+1F02"
      [] c = "U+1F0B" -> "U+1F03"
      [] c = "U+1F0C" -> "U+1F04"
      [] c = "U+1F0D" -> "U+1F05"
      [] c = "U+1F0E" -> "U+1F06"
      [] c = "U+1F0F" -> "U+1F07"
      [] c = "U+1F18" -> "U+1F10"
      [] c = "U+1F19" -> "U+1F11"
      [] c = "U+1F1A" -> "U+1F12"
      [] c = "U+1F1B" -> "U+1F13"
      [] c = "U+1F1C" -> "U+1F14"
      [] c = "U+1F1D" -> "U+1F15"
      [] c = "U+1F28" -> "U+1F20"
      [] c = "U+1F29" -> "U+1F21"
      [] c = "U+1F2A" -> "U+1F22"
      [] c = "U+1F2B" -> "U+1F23"
      [] c = "U+1F2C" -> "U+1F24"
      [] c = "U+1F2D" -> "U+1F25"
      [] c = "U+1F2E" -> "U+1F26"
      [] c = "U+1F2F" -> "U+1F27"
      [] c = "U+1F38" -> "U+1F30"
      [] c = "U+1F39" -> "U+1F31"
      [] c = "U+1F3A" -> "U+1F32"
      [] c = "U+1F3B" -> "U+1F33"
      [] c = "U+1F3C" -> "U+1F34"
      [] c = "U+1F3D" -> "U+1F35"
      [] c = "U+1F3E" -> "U+1F36"
      [] c = "U+1F3F" -> "U+1F37"
      [] c = "U+1F48" -> "U+1F40"
      [] c = "U+1F49" -> "U+1F41"
      [] c = "U+1F4A" -> "U+1F42"
      [] c = "U+1F4B" -> "U+1F43"
      [] c = "U+1F4C" -> "U+1F44"
      [] c = "U+1F4D" -> "U+1F45"
      [] c = "U+1F59" -> "U+1F51"
      [] c = "U+1F5B" -> "U+1F53"
      [] c = "U+1F5D" -> "U+1F55"
      [] c = "U+1F5F" -> "U+1F57"
      [] c = "U+1F68" -> "U+1F60"
      [] c = "U+1F69" -> "U+1F61"
      [] c = "U+1F6A" -> "U+1F62"
      [] c = "U+1F6B" -> "U+1F63"
      [] c = "U+1F6C" -> "U+1F64"
      [] c = "U+1F6D" -> "U+1F65"
      [] c = "U+1F6E" -> "U+1F66"
      [] c = "U+1F6F" -> "U+1F67"
      [] c = "U+1F88" -> "U+1F80"
      [] c = "U+1F89" -> "U+1F81"
      [] c = "U+1F8A" -> "U+1F82"
      [] c = "U+1F8B" -> "U+1F83"
      [] c = "U+1F8C" -> "U+1F84"
      [] c = "U+1F8D" -> "U+1F85"
      [] c = "U+1F8E" -> "U+1F86"
      [] c = "U+1F8F" -> "U+1F87"
      [] c = "U+1F98" -> "U+1F90"
      [] c = "U+1F99" -> "U+1F91"
      [] c = "U+1F9A" -> "U+1F92"
      [] c = "U+1F9B" -> "U+1F93"
      [] c = "U+1F9C" -> "U+1F94"
      [] c = "U+1F9D" -> "U+1F95"
      [] c = "U+1F9E" -> "U+1F96"
      [] c = "U+1F9F" -> "U+1F97"
      [] c = "U+1FA8" -> "U+1FA0"
      [] c = "U+1FA9" -> "U+1FA1"
      [] c = "U+1FAA" -> "U+1FA2"
      [] c = "U+1FAB" -> "U+1FA3"
      [] c = "U+1FAC" -> "U+1FA4"
      [] c = "U+1FAD" -> "U+1FA5"
      [] c = "U+1FAE" -> "U+1FA6"
      [] c = "U+1FAF" -> "U+1FA7"
      [] c = "U+1FB8" -> "U+1FB0"
      [] c = "U+1FB9" -> "U+1FB1"
      [] c = "U+1FBA" -> "U+1F70"
      [] c = "U+1FBB" -> "U+1F71"
      [] c = "U+1FBC" -> "U+1FB3"
      [] c = "U+1FC8" -> "U+1F72"
      [] c = "U+1FC9" -> "U+1F73"
      [] c = "U+1FCA" -> "U+1F74"
      [] c = "U+1FCB" -> "U+1F75"
      [] c = "U+1FCC" -> "U+1FC3"
      [] c = "U+1FD8" -> "U+1FD0"
      [] c = "U+1FD9" -> "U+1FD1"
      [] c = "U+1FDA" -> "U+1F76"
      [] c = "U+1FDB" -> "U+1F77"
      [] c = "U+1FE8" -> "U+1FE0"
      [] c = "U+1FE9" -> "U+1FE1"
      [] c = "U+1FEA" -> "U+1F7A"
      [] c = "U+1FEB" -> "U+1F7B"
      [] c = "U+1FEC" -> "U+1FE5"
      [] c = "U+1FF8" -> "U+1F78"
      [] c = "U+1FF9" -> "U+1F79"
      [] c = "U+1FFA" -> "U+1F7C"
      [] c = "U+1FFB" -> "U+1F7D"
      [] c = "U+1FFC" -> "U+1FF3"
      [] c = "U+2126" -> "U+03C9"
      [] c = "U+212A" -> "k"
      [] c = "U+212B" -> "å"
      [] c = "U+2132" -> "U+214E"
      [] c = "U+2160" -> "U+2170"
      [] c = "U+2161" -> "U+2171"
      [] c = "U+2162" -> "U+2172"
      [] c = "U+2163" -> "U+2173"
      [] c = "U+2164" -> "U+2174"
      [] c = "U+2165" -> "U+2175"
      [] c = "U+2166" -> "U+2176"
      [] c = "U+2167" -> "U+2177"
      [] c = "U+2168" -> "U+2178"
      [] c = "U+2169" -> "U+2179"
      [] c = "U+216A" -> "U+217A"
      [] c = "U+216B" -> "U+217B"
      [] c = "U+216C" -> "U+217C"
      [] c = "U+216D" -> "U+217D"
      [] c = "U+216E" -> "U+217E"
      [] c = "U+216F" -> "U+217F"
      [] c = "U+2183" -> "U+2184"
      [] c = "U+24B6" -> "U+24D0"
      [] c = "U+24B7" -> "U+24D1"
      [] c = "U+24B8" -> "U+24D2"
      [] c = "U+24B9" -> "U+24D3"
      [] c = "U+24BA" -> "U+24D4"
      [] c = "U+24BB" -> "U+24D5"
      [] c = "U+24BC" -> "U+24D6"
      [] c = "U+24BD" -> "U+24D7"
      [] c = "U+24BE" -> "U+24D8"
      [] c = "U+24BF" -> "U+24D9"
      [] c = "U+24C0" -> "U+24DA"
      [] c = "U+24C1" -> "U+24DB"
      [] c = "U+24C2" -> "U+24DC"
      [] c = "U+24C3" -> "U+24DD"
      [] c = "U+24C4" -> "U+24DE"
      [] c = "U+24C5" -> "U+24DF"
      [] c = "U+24C6" -> "U+24E0"
      [] c = "U+24C7" -> "U+24E1"
      [] c = "U+24C8" -> "U+24E2"
      [] c = "U+24C9" -> "U+24E3"
      [] c = "U+24CA" -> "U+24E4"
      [] c = "U+24CB" -> "U+24E5"
      [] c = "U+24CC" -> "U+24E6"
      [] c = "U+24CD" -> "U+24E7"
      [] c = "U+24CE" -> "U+24E8"
      [] c = "U+24CF" -> "U+24E9"
      [] c = "U+2C00" -> "U+2C30"
      [] c = "U+2C01" -> "U+2C31"
      [] c = "U+2C02" -> "U+2C32"
      [] c = "U+2C03" -> "U+2C33"
      [] c = "U+2C04" -> "U+2C34"
      [] c = "U+2C05" -> "U+2C35"
      [] c = "U+2C06" -> "U+2C36"
      [] c = "U+2C07" -> "U+2C37"
      [] c = "U+2C08" -> "U+2C38"
      [] c = "U+2C09" -> "U+2C39"
      [] c = "U+2C0A" -> "U+2C3A"
      [] c = "U+2C0B" -> "U+2C3B"
      [] c = "U+2C0C" -> "U+2C3C"
      [] c = "U+2C0D" -> "U+2C3D"
      [] c = "U+2C0E" -> "U+2C3E"
      [] c = "U+2C0F" -> "U+2C3F"
      [] c = "U+2C10" -> "U+2C40"
      [] c = "U+2C11" -> "U+2C41"
      [] c = "U+2C12" -> "U+2C42"
      [] c = "U+2C13" -> "U+2C43"
      [] c = "U+2C14" -> "U+2C44"
      [] c = "U+2C15" -> "U+2C45"
      [] c = "U+2C16" -> "U+2C46"
      [] c = "U+2C17" -> "U+2C47"
      [] c = "U+2C18" -> "U+2C48"
      [] c = "U+2C19" -> "U+2C49"
      [] c = "U+2C1A" -> "U+2C4A"
      [] c = "U+2C1B" -> "U+2C4B"
      [] c = "U+2C1C" -> "U+2C4C"
      [] c = "U+2C1D" -> "U+2C4D"
      [] c = "U+2C1E" -> "U+2C4E"
      [] c = "U+2C1F" -> "U+2C4F"
      [] c = "U+2C20" -> "U+2C50"
      [] c = "U+2C21" -> "U+2C51"
      [] c = "U+2C22" -> "U+2C52"
      [] c = "U+2C23" -> "U+2C53"
      [] c = "U+2C24" -> "U+2C54"
      [] c = "U+2C25" -> "U+2C55"
      [] c = "U+2C26" -> "U+2C56"
      [] c = "U+2C27" -> "U+2C57"
      [] c = "U+2C28" -> "U+2C58"
      [] c = "U+2C29" -> "U+2C59"
      [] c = "U+2C2A" -> "U+2C5A"
      [] c = "U+2C2B" -> "U+2C5B"
      [] c = "U+2C2C" -> "U+2C5C"
      [] c = "U+2C2D" -> "U+2C5D"
      [] c = "U+2C2E" -> "U+2C5E"
      [] c = "U+2C2F" -> "U+2C5F"
      [] c = "U+2C60" -> "U+2C61"
      [] c = "U+2C62" -> "U+026B"
      [] c = "U+2C63" -> "U+1D7D"
      [] c = "U+2C64" -> "U+027D"
      [] c = "U+2C67" -> "U+2C68"
      [] c = "U+2C69" -> "U+2C6A"
      [] c = "U+2C6B" -> "U+2C6C"
      [] c = "U+2C6D" -> "U+0251"
      [] c = "U+2C6E" -> "U+0271"
      [] c = "U+2C6F" -> "U+0250"
      [] c = "U+2C70" -> "U+0252"
      [] c = "U+2C72" -> "U+2C73"
      [] c = "U+2C75" -> "U+2C76"
      [] c = "U+2C7E" -> "U+023F"
      [] c = "U+2C7F" -> "U+0240"
      [] c = "U+2C80" -> "U+2C81"
      [] c = "U+2C82" -> "U+2C83"
      [] c = "U+2C84" -> "U+2C85"
      [] c = "U+2C86" -> "U+2C87"
      [] c = "U+2C88" -> "U+2C89"
      [] c = "U+2C8A" -> "U+2C8B"
      [] c = "U+2C8C" -> "U+2C8D"
      [] c = "U+2C8E" -> "U+2C8F"
      [] c = "U+2C90" -> "U+2C91"
      [] c = "U+2C92" -> "U+2C93"
      [] c = "U+2C94" -> "U+2C95"
      [] c = "U+2C96" -> "U+2C97"
      [] c = "U+2C98" -> "U+2C99"
      [] c = "U+2C9A" -> "U+2C9B"
      [] c = "U+2C9C" -> "U+2C9D"
      [] c = "U+2C9E" -> "U+2C9F"
      [] c = "U+2CA0" -> "U+2CA1"
      [] c = "U+2CA2" -> "U+2CA3"
      [] c = "U+2CA4" -> "U+2CA5"
      [] c = "U+2CA6" -> "U+2CA7"
      [] c = "U+2CA8" -> "U+2CA9"
      [] c = "U+2CAA" -> "U+2CAB"
      [] c = "U+2CAC" -> "U+2CAD"
      [] c = "U+2CAE" -> "U+2CAF"
      [] c = "U+2CB0" -> "U+2CB1"
      [] c = "U+2CB2" -> "U+2CB3"
      [] c = "U+2CB4" -> "U+2CB5"
      [] c = "U+2CB6" -> "U+2CB7"
      [] c = "U+2CB8" -> "U+2CB9"
      [] c = "U+2CBA" -> "U+2CBB"
      [] c = "U+2CBC" -> "U+2CBD"
      [] c = "U+2CBE" -> "U+2CBF"
      [] c = "U+2CC0" -> "U+2CC1"
      [] c = "U+2CC2" -> "U+2CC3"
      [] c = "U+2CC4" -> "U+2CC5"
      [] c = "U+2CC6" -> "U+2CC7"
      [] c = "U+2CC8" -> "U+2CC9"
      [] c = "U+2CCA" -> "U+2CCB"
      [] c = "U+2CCC" -> "U+2CCD"
      [] c = "U+2CCE" -> "U+2CCF"
      [] c = "U+2CD0" -> "U+2CD1"
      [] c = "U+2CD2" -> "U+2CD3"
      [] c = "U+2CD4" -> "U+2CD5"
      [] c = "U+2CD6" -> "U+2CD7"
      [] c = "U+2CD8" -> "U+2CD9"
      [] c = "U+2CDA" -> "U+2CDB"
      [] c = "U+2CDC" -> "U+2CDD"
      [] c = "U+2CDE" -> "U+2CDF"
      [] c = "U+2CE0" -> "U+2CE1"
      [] c = "U+2CE2" -> "U+2CE3"
      [] c = "U+2CEB" -> "U+2CEC"
      [] c = "U+2CED" -> "U+2CEE"
      [] c = "U+2CF2" -> "U+2CF3"
      [] c = "U+A640" -> "U+A641"
      [] c = "U+A642" -> "U+A643"
      [] c = "U+A644" -> "U+A645"
      [] c = "U+A646" -> "U+A647"
      [] c = "U+A648" -> "U+A649"
      [] c = "U+A64A" -> "U+A64B"
      [] c = "U+A64C" -> "U+A64D"
      [] c = "U+A64E" -> "U+A64F"
      [] c = "U+A650" -> "U+A651"
      [] c = "U+A652" -> "U+A653"
      [] c = "U+A654" -> "U+A655"
      [] c = "U+A656" -> "U+A657"
      [] c = "U+A658" -> "U+A659"
      [] c = "U+A65A" -> "U+A65B"
      [] c = "U+A65C" -> "U+A65D"
      [] c = "U+A65E" -> "U+A65F"
      [] c = "U+A660" -> "U+A661"
      [] c = "U+A662" -> "U+A663"
      [] c = "U+A664" -> "U+A665"
      [] c = "U+A666" -> "U+A667"
      [] c = "U+A668" -> "U+A669"
      [] c = "U+A66A" -> "U+A66B"
      [] c = "U+A66C" -> "U+A66D"
      [] c = "U+A680" -> "U+A681"
      [] c = "U+A682" -> "U+A683"
      [] c = "U+A684" -> "U+A685"
      [] c = "U+A686" -> "U+A687"
      [] c = "U+A688" -> "U+A689"
      [] c = "U+A68A" -> "U+A68B"
      [] c = "U+A68C" -> "U+A68D"
      [] c = "U+A68E" -> "U+A68F"
      [] c = "U+A690" -> "U+A691"
      [] c = "U+A692" -> "U+A693"
      [] c = "U+A694" -> "U+A695"
      [] c = "U+A696" -> "U+A697"
      [] c = "U+A698" -> "U+A699"
      [] c = "U+A69A" -> "U+A69B"
      [] c = "U+A722" -> "U+A723"
      [] c = "U+A724" -> "U+A725"
      [] c = "U+A726" -> "U+A727"
      [] c = "U+A728" -> "U+A729"
      [] c = "U+A72A" -> "U+A72B"
      [] c = "U+A72C" -> "U+A72D"
      [] c = "U+A72E" -> "U+A72F"
      [] c = "U+A732" -> "U+A733"
      [] c = "U+A734" -> "U+A735"
      [] c = "U+A736" -> "U+A737"
      [] c = "U+A738" -> "U+A739"
      [] c = "U+A73A" -> "U+A73B"
      [] c = "U+A73C" -> "U+A73D"
      [] c = "U+A73E" -> "U+A73F"
      [] c = "U+A740" -> "U+A741"
      [] c = "U+A742" -> "U+A743"
      [] c = "U+A744" -> "U+A745"
      [] c = "U+A746" -> "U+A747"
      [] c = "U+A748" -> "U+A749"
      [] c = "U+A74A" -> "U+A74B"
      [] c = "U+A74C" -> "U+A74D"
      [] c = "U+A74E" -> "U+A74F"
      [] c = "U+A750" -> "U+A751"
      [] c = "U+A752" -> "U+A753"
      [] c = "U+A754" -> "U+A755"
      [] c = "U+A756" -> "U+A757"
      [] c = "U+A758" -> "U+A759"
      [] c = "U+A75A" -> "U+A75B"
      [] c = "U+A75C" -> "U+A75D"
      [] c = "U+A75E" -> "U+A75F"
      [] c = "U+A760" -> "U+A761"
      [] c = "U+A762" -> "U+A763"
      [] c = "U+A764" -> "U+A765"
      [] c = "U+A766" -> "U+A767"
      [] c = "U+A768" -> "U+A769"
      [] c = "U+A76A" -> "U+A76B"
      [] c = "U+A76C" -> "U+A76D"
      [] c = "U+A76E" -> "U+A76F"
      [] c = "U+A779" -> "U+A77A"
      [] c = "U+A77B" -> "U+A77C"
      [] c = "U+A77D" -> "U+1D79"
      [] c = "U+A77E" -> "U+A77F"
      [] c = "U+A780" -> "U+A781"
      [] c = "U+A782" -> "U+A783"
      [] c = "U+A784" -> "U+A785"
      [] c = "U+A786" -> "U+A787"
      [] c = "U+A78B" -> "U+A78C"
      [] c = "U+A78D" -> "U+0265"
      [] c = "U+A790" -> "U+A791"
      [] c = "U+A792" -> "U+A793"
      [] c = "U+A796" -> "U+A797"
      [] c = "U+A798" -> "U+A799"
      [] c = "U+A79A" -> "U+A79B"
      [] c = "U+A79C" -> "U+A79D"
      [] c = "U+A79E" -> "U+A79F"
      [] c = "U+A7A0" -> "U+A7A1"
      [] c = "U+A7A2" -> "U+A7A3"
      [] c = "U+A7A4" -> "U+A7A5"
      [] c = "U+A7A6" -> "U+A7A7"
      [] c = "U+A7A8" -> "U+A7A9"
      [] c = "U+A7AA" -> "U+0266"
      [] c = "U+A7AB" -> "U+025C"
      [] c = "U+A7AC" -> "U+0261"
      [] c = "U+A7AD" -> "U+026C"
      [] c = "U+A7AE" -> "U+026A"
      [] c = "U+A7B0" -> "U+029E"
      [] c = "U+A7B1" -> "U+0287"
      [] c = "U+A7B2" -> "U+029D"
      [] c = "U+A7B3" -> "U+AB53"
      [] c = "U+A7B4" -> "U+A7B5"
      [] c = "U+A7B6" -> "U+A7B7"
      [] c = "U+A7B8" -> "U+A7B9"
      [] c = "U+A7BA" -> "U+A7BB"
      [] c = "U+A7BC" -> "U+A7BD"
      [] c = "U+A7BE" -> "U+A7BF"
      [] c = "U+A7C0" -> "U+A7C1"
      [] c = "U+A7C2" -> "U+A7C3"
      [] c = "U+A7C4" -> "U+A794"
      [] c = "U+A7C5" -> "U+0282"
      [] c = "U+A7C6" -> "U+1D8E"
      [] c = "U+A7C7" -> "U+A7C8"
      [] c = "U+A7C9" -> "U+A7CA"
      [] c = "U+A7D0" -> "U+A7D1"
      [] c = "U+A7D6" -> "U+A7D7"
      [] c = "U+A7D8" -> "U+A7D9"
      [] c = "U+A7F5" -> "U+A7F6"
      [] c = "U+FF21" -> "U+FF41"
      [] c = "U+FF22" -> "U+FF42"
      [] c = "U+FF23" -> "U+FF43"
      [] c = "U+FF24" -> "U+FF44"
      [] c = "U+FF25" -> "U+FF45"
      [] c = "U+FF26" -> "U+FF46"
      [] c = "U+FF27" -> "U+FF47"
      [] c = "U+FF28" -> "U+FF48"
      [] c = "U+FF29" -> "U+FF49"
      [] c = "U+FF2A" -> "U+FF4A"
      [] c = "U+FF2B" -> "U+FF4B"
      [] c = "U+FF2C" -> "U+FF4C"
      [] c = "U+FF2D" -> "U+FF4D"
      [] c = "U+FF2E" -> "U+FF4E"
      [] c = "U+FF2F" -> "U+FF4F"
      [] c = "U+FF30" -> "U+FF50"
      [] c = "U+FF31" -> "U+FF51"
      [] c = "U+FF32" -> "U+FF52"
      [] c = "U+FF33" -> "U+FF53"
      [] c = "U+FF34" -> "U+FF54"
      [] c = "U+FF35" -> "U+FF55"
      [] c = "U+FF36" -> "U+FF56"
      [] c = "U+FF37" -> "U+FF57"
      [] c = "U+FF38" -> "U+FF58"
      [] c = "U+FF39" -> "U+FF59"
      [] c = "U+FF3A" -> "U+FF5A"
      [] c = "U+10400" -> "U+10428"
      [] c = "U+10401" -> "U+10429"
      [] c = "U+10402" -> "U+1042A"
      [] c = "U+10403" -> "U+1042B"
      [] c = "U+10404" -> "U+1042C"
      [] c = "U+10405" -> "U+1042D"
      [] c = "U+10406" -> "U+1042E"
      [] c = "U+10407" -> "U+1042F"
      [] c = "U+10408" -> "U+10430"
      [] c = "U+10409" -> "U+10431"
      [] c = "U+1040A" -> "U+10432"
      [] c = "U+1040B" -> "U+10433"
      [] c = "U+1040C" -> "U+10434"
      [] c = "U+1040D" -> "U+10435"
      [] c = "U+1040E" -> "U+10436"
      [] c = "U+1040F" -> "U+10437"
      [] c = "U+10410" -> "U+10438"
      [] c = "U+10411" -> "U+10439"
      [] c = "U+10412" -> "U+1043A"
      [] c = "U+10413" -> "U+1043B"
      [] c = "U+10414" -> "U+1043C"
      [] c = "U+10415" -> "U+1043D"
      [] c = "U+10416" -> "U+1043E"
      [] c = "U+10417" -> "U+1043F"
      [] c = "U+10418" -> "U+10440"
      [] c = "U+10419" -> "U+10441"
      [] c = "U+1041A" -> "U+10442"
      [] c = "U+1041B" -> "U+10443"
      [] c = "U+1041C" -> "U+10444"
      [] c = "U+1041D" -> "U+10445"
      [] c = "U+1041E" -> "U+10446"
      [] c = "U+1041F" -> "U+10447"
      [] c = "U+10420" -> "U+10448"
      [] c = "U+10421" -> "U+10449"
      [] c = "U+10422" -> "U+1044A"
      [] c = "U+10423" -> "U+1044B"
      [] c = "U+10424" -> "U+1044C"
      [] c = "U+10425" -> "U+1044D"
      [] c = "U+10426" -> "U+1044E"
      [] c = "U+10427" -> "U+1044F"
      [] c = "U+104B0" -> "U+104D8"
      [] c = "U+104B1" -> "U+104D9"
      [] c = "U+104B2" -> "U+104DA"
      [] c = "U+104B3" -> "U+104DB"
      [] c = "U+104B4" -> "U+104DC"
      [] c = "U+104B5" -> "U+104DD"
      [] c = "U+104B6" -> "U+104DE"
      [] c = "U+104B7" -> "U+104DF"
      [] c = "U+104B8" -> "U+104E0"
      [] c = "U+104B9" -> "U+104E1"
      [] c = "U+104BA" -> "U+104E2"
      [] c = "U+104BB" -> "U+104E3"
      [] c = "U+104BC" -> "U+104E4"
      [] c = "U+104BD" -> "U+104E5"
      [] c = "U+104BE" -> "U+104E6"
      [] c = "U+104BF" -> "U+104E7"
      [] c = "U+104C0" -> "U+104E8"
      [] c = "U+104C1" -> "U+104E9"
      [] c = "U+104C2" -> "U+104EA"
      [] c = "U+104C3" -> "U+104EB"
      [] c = "U+104C4" -> "U+104EC"
      [] c = "U+104C5" -> "U+104ED"
      [] c = "U+104C6" -> "U+104EE"
      [] c = "U+104C7" -> "U+104EF"
      [] c = "U+104C8" -> "U+104F0"
      [] c = "U+104C9" -> "U+104F1"
      [] c = "U+104CA" -> "U+104F2"
      [] c = "U+104CB" -> "U+104F3"
      [] c = "U+104CC" -> "U+104F4"
      [] c = "U+104CD" -> "U+104F5"
      [] c = "U+104CE" -> "U+104F6"
      [] c = "U+104CF" -> "U+104F7"
      [] c = "U+104D0" -> "U+104F8"
      [] c = "U+104D1" -> "U+104F9"
      [] c = "U+104D2" -> "U+104FA"
      [] c = "U+104D3" -> "U+104FB"
      [] c = "U+10570" -> "U+10597"
      [] c = "U+10571" -> "U+10598"
      [] c = "U+10572" -> "U+10599"
      [] c = "U+10573" -> "U+1059A"
      [] c = "U+10574" -> "U+1059B"
      [] c = "U+10575" -> "U+1059C"
      [] c = "U+10576" -> "U+1059D"
      [] c = "U+10577" -> "U+1059E"
      [] c = "U+10578" -> "U+1059F"
      [] c = "U+10579" -> "U+105A0"
      [] c = "U+1057A" -> "U+105A1"
      [] c = "U+1057C" -> "U+105A3"
      [] c = "U+1057D" -> "U+105A4"
      [] c = "U+1057E" -> "U+105A5"
      [] c = "U+1057F" -> "U+105A6"
      [] c = "U+10580" -> "U+105A7"
      [] c = "U+10581" -> "U+105A8"
      [] c = "U+10582" -> "U+105A9"
      [] c = "U+10583" -> "U+105AA"
      [] c = "U+10584" -> "U+105AB"
      [] c = "U+10585" -> "U+105AC"
      [] c = "U+10586" -> "U+105AD"
      [] c = "U+10587" -> "U+105AE"
      [] c = "U+10588" -> "U+105AF"
      [] c = "U+10589" -> "U+105B0"
      [] c = "U+1058A" -> "U+105B1"
      [] c = "U+1058C" -> "U+105B3"
      [] c = "U+1058D" -> "U+105B4"
      [] c = "U+1058E" -> "U+105B5"
      [] c = "U+1058F" -> "U+105B6"
      [] c = "U+10590" -> "U+105B7"
      [] c = "U+10591" -> "U+105B8"
      [] c = "U+10592" -> "U+105B9"
      [] c = "U+10594" -> "U+105BB"
      [] c = "U+10595" -> "U+105BC"
      [] c = "U+10C80" -> "U+10CC0"
      [] c = "U+10C81" -> "U+10CC1"
      [] c = "U+10C82" -> "U+10CC2"
      [] c = "U+10C83" -> "U+10CC3"
      [] c = "U+10C84" -> "U+10CC4"
      [] c = "U+10C85" -> "U+10CC5"
      [] c = "U+10C86" -> "U+10CC6"
      [] c = "U+10C87" -> "U+10CC7"
      [] c = "U+10C88" -> "U+10CC8"
      [] c = "U+10C89" -> "U+10CC9"
      [] c = "U+10C8A" -> "U+10CCA"
      [] c = "U+10C8B" -> "U+10CCB"
      [] c = "U+10C8C" -> "U+10CCC"
      [] c = "U+10C8D" -> "U+10CCD"
      [] c = "U+10C8E" -> "U+10CCE"
      [] c = "U+10C8F" -> "U+10CCF"
      [] c = "U+10C90" -> "U+10CD0"
      [] c = "U+10C91" -> "U+10CD1"
      [] c = "U+10C92" -> "U+10CD2"
      [] c = "U+10C93" -> "U+10CD3"
      [] c = "U+10C94" -> "U+10CD4"
      [] c = "U+10C95" -> "U+10CD5"
      [] c = "U+10C96" -> "U+10CD6"
      [] c = "U+10C97" -> "U+10CD7"
      [] c = "U+10C98" -> "U+10CD8"
      [] c = "U+10C99" -> "U+10CD9"
      [] c = "U+10C9A" -> "U+10CDA"
      [] c = "U+10C9B" -> "U+10CDB"
      [] c = "U+10C9C" -> "U+10CDC"
      [] c = "U+10C9D" -> "U+10CDD"
      [] c = "U+10C9E" -> "U+10CDE"
      [] c = "U+10C9F" -> "U+10CDF"
      [] c = "U+10CA0" -> "U+10CE0"
      [] c = "U+10CA1" -> "U+10CE1"
      [] c = "U+10CA2" -> "U+10CE2"
      [] c = "U+10CA3" -> "U+10CE3"
      [] c = "U+10CA4" -> "U+10CE4"
      [] c = "U+10CA5" -> "U+10CE5"
      [] c = "U+10CA6" -> "U+10CE6"
      [] c = "U+10CA7" -> "U+10CE7"
      [] c = "U+10CA8" -> "U+10CE8"
      [] c = "U+10CA9" -> "U+10CE9"
      [] c = "U+10CAA" -> "U+10CEA"
      [] c = "U+10CAB" -> "U+10CEB"
      [] c = "U+10CAC" -> "U+10CEC"
      [] c = "U+10CAD" -> "U+10CED"
      [] c = "U+10CAE" -> "U+10CEE"
      [] c = "U+10CAF" -> "U+10CEF"
      [] c = "U+10CB0" -> "U+10CF0"
      [] c = "U+10CB1" -> "U+10CF1"
      [] c = "U+10CB2" -> "U+10CF2"
      [] c = "U+118A0" -> "U+118C0"
      [] c = "U+118A1" -> "U+118C1"
      [] c = "U+118A2" -> "U+118C2"
      [] c = "U+118A3" -> "U+118C3"
      [] c = "U+118A4" -> "U+118C4"
      [] c = "U+118A5" -> "U+118C5"
      [] c = "U+118A6" -> "U+118C6"
      [] c = "U+118A7" -> "U+118C7"
      [] c = "U+118A8" -> "U+118C8"
      [] c = "U+118A9" -> "U+118C9"
      [] c = "U+118AA" -> "U+118CA"
      [] c = "U+118AB" -> "U+118CB"
      [] c = "U+118AC" -> "U+118CC"
      [] c = "U+118AD" -> "U+118CD"
      [] c = "U+118AE" -> "U+118CE"
      [] c = "U+118AF" -> "U+118CF"
      [] c = "U+118B0" -> "U+118D0"
      [] c = "U+118B1" -> "U+118D1"
      [] c = "U+118B2" -> "U+118D2"
      [] c = "U+118B3" -> "U+118D3"
      [] c = "U+118B4" -> "U+118D4"
      [] c = "U+118B5" -> "U+118D5"
      [] c = "U+118B6" -> "U+118D6"
      [] c = "U+118B7" -> "U+118D7"
      [] c = "U+118B8" -> "U+118D8"
      [] c = "U+118B9" -> "U+118D9"
      [] c = "U+118BA" -> "U+118DA"
      [] c = "U+118BB" -> "U+118DB"
      [] c = "U+118BC" -> "U+118DC"
      [] c = "U+118BD" -> "U+118DD"
      [] c = "U+118BE" -> "U+118DE"
      [] c = "U+118BF" -> "U+118DF"
      [] c = "U+16E40" -> "U+16E60"
      [] c = "U+16E41" -> "U+16E61"
      [] c = "U+16E42" -> "U+16E62"
      [] c = "U+16E43" -> "U+16E63"
      [] c = "U+16E44" -> "U+16E64"
      [] c = "U+16E45" -> "U+16E65"
      [] c = "U+16E46" -> "U+16E66"
      [] c = "U+16E47" -> "U+16E67"
      [] c = "U+16E48" -> "U+16E68"
      [] c = "U+16E49" -> "U+16E69"
      [] c = "U+16E4A" -> "U+16E6A"
      [] c = "U+16E4B" -> "U+16E6B"
      [] c = "U+16E4C" -> "U+16E6C"
      [] c = "U+16E4D" -> "U+16E6D"
      [] c = "U+16E4E" -> "U+16E6E"
      [] c = "U+16E4F" -> "U+16E6F"
      [] c = "U+16E50" -> "U+16E70"
      [] c = "U+16E51" -> "U+16E71"
      [] c = "U+16E52" -> "U+16E72"
      [] c = "U+16E53" -> "U+16E73"
      [] c = "U+16E54" -> "U+16E74"
      [] c = "U+16E55" -> "U+16E75"
      [] c = "U+16E56" -> "U+16E76"
      [] c = "U+16E57" -> "U+16E77"
      [] c = "U+16E58" -> "U+16E78"
      [] c = "U+16E59" -> "U+16E79"
      [] c = "U+16E5A" -> "U+16E7A"
      [] c = "U+16E5B" -> "U+16E7B"
      [] c = "U+16E5C" -> "U+16E7C"
      [] c = "U+16E5D" -> "U+16E7D"
      [] c = "U+16E5E" -> "U+16E7E"
      [] c = "U+16E5F" -> "U+16E7F"
      [] c = "U+1E900" -> "U+1E922"
      [] c = "U+1E901" -> "U+1E923"
      [] c = "U+1E902" -> "U+1E924"
      [] c = "U+1E903" -> "U+1E925"
      [] c = "U+1E904" -> "U+1E926"
      [] c = "U+1E905" -> "U+1E927"
      [] c = "U+1E906" -> "U+1E928"
      [] c = "U+1E907" -> "U+1E929"
      [] c = "U+1E908" -> "U+1E92A"
      [] c = "U+1E909" -> "U+1E92B"
      [] c = "U+1E90A" -> "U+1E92C"
      [] c = "U+1E90B" -> "U+1E92D"
      [] c = "U+1E90C" -> "U+1E92E"
      [] c = "U+1E90D" -> "U+1E92F"
      [] c = "U+1E90E" -> "U+1E930"
      [] c = "U+1E90F" -> "U+1E931"
      [] c = "U+1E910" -> "U+1E932"
      [] c = "U+1E911" -> "U+1E933"
      [] c = "U+1E912" -> "U+1E934"
      [] c = "U+1E913" -> "U+1E935"
      [] c = "U+1E914" -> "U+1E936"
      [] c = "U+1E915" -> "U+1E937"
      [] c = "U+1E916" -> "U+1E938"
      [] c = "U+1E917" -> "U+1E939"
      [] c = "U+1E918" -> "U+1E93A"
      [] c = "U+1E919" -> "U+1E93B"
      [] c = "U+1E91A" -> "U+1E93C"
      [] c = "U+1E91B" -> "U+1E93D"
      [] c = "U+1E91C" -> "U+1E93E"
      [] c = "U+1E91D" -> "U+1E93F"
      [] c = "U+1E91E" -> "U+1E940"
      [] c = "U+1E91F" -> "U+1E941"
      [] c = "U+1E920" -> "U+1E942"
      [] c = "U+1E921" -> "U+1E943"
      [] OTHER -> c

\* c.lower() of a character that lowers to one character; the characters
\* above U+00FF are those written by their code point
LowerChar(c) ==
    IF Len(c) > 1 THEN LowerWide(c)
    ELSE
      CASE c = "A" -> "a"
        [] c = "B" -> "b"
        [] c = "C" -> "c"
        [] c = "D" -> "d"
        [] c = "E" -> "e"
        [] c = "F" -> "f"
        [] c = "G" -> "g"
        [] c = "H" -> "h"
        [] c = "I" -> "i"
        [] c = "J" -> "j"
        [] c = "K" -> "k"
        [] c = "L" -> "l"
        [] c = "M" -> "m"
        [] c = "N" -> "n"
        [] c = "O" -> "o"
        [] c = "P" -> "p"
        [] c = "Q" -> "q"
        [] c = "R" -> "r"
        [] c = "S" -> "s"
        [] c = "T" -> "t"
        [] c = "U" -> "u"
        [] c = "V" -> "v"
        [] c = "W" -> "w"
        [] c = "X" -> "x"
        [] c = "Y" -> "y"
        [] c = "Z" -> "z"
        [] c = "À" -> "à"
        [] c = "Á" -> "á"
        [] c = "Â" -> "â"
        [] c = "Ã" -> "ã"
        [] c = "Ä" -> "ä"
        [] c = "Å" -> "å"
        [] c = "Æ" -> "æ"
        [] c = "Ç" -> "ç"
        [] c = "È" -> "è"
        [] c = "É" -> "é"
        [] c = "Ê" -> "ê"
        [] c = "Ë" -> "ë"
        [] c = "Ì" -> "ì"
        [] c = "Í" -> "í"
        [] c = "Î" -> "î"
        [] c = "Ï" -> "ï"
        [] c = "Ð" -> "ð"
        [] c = "Ñ" -> "ñ"
        [] c = "Ò" -> "ò"
        [] c = "Ó" -> "ó"
        [] c = "Ô" -> "ô"
        [] c = "Õ" -> "õ"
        [] c = "Ö" -> "ö"
        [] c = "Ø" -> "ø"
        [] c = "Ù" -> "ù"
        [] c = "Ú" -> "ú"
        [] c = "Û" -> "û"
        [] c = "Ü" -> "ü"
        [] c = "Ý" -> "ý"
        [] c = "Þ" -> "þ"
        [] OTHER -> c

\* the capital sigma at position i of s is a final one: a cased character
\* comes before it and none after it, case-ignorable characters skipped
FinalSigma(s, i) ==
    \E t \in {CaseTables} :
       LET before == {j \in 1..(i - 1) : s[j] \notin t.ignorable}
           after  == {j \in (i + 1)..Len(s) : s[j] \notin t.ignorable}
       IN  /\ before # {}
           /\ s[CHOOSE j \in before : \A n \in before : n <= j] \in t.cased
           /\ \/ after = {}
              \/ s[CHOOSE j \in after : \A n \in after : j <= n]
                    \notin t.cased

\* s.lower() from position i on: the capital I with dot lowers to two
\* characters, the capital sigma to the final or the plain small sigma
RECURSIVE LowerFrom(_, _)
LowerFrom(s, i) ==
    IF i > Len(s) THEN <<>>
    ELSE (IF s[i] = "U+0130" THEN <<"i", "U+0307">>
          ELSE IF s[i] = "U+03A3"
          THEN <<IF FinalSigma(s, i) THEN "U+03C2" ELSE "U+03C3">>
          ELSE <<LowerChar(s[i])>>) \o LowerFrom(s, i + 1)

\* s.lower()
ToLower(s) == LowerFrom(s, 1)

\* s.replace(c, d) for a one-character c and a d of any length
RECURSIVE Replace(_, _, _)
Replace(s, c, d) ==
    IF Len(s) = 0 THEN <<>>
    ELSE (IF s[1] = c THEN d ELSE <<s[1]>>) \o Replace(Tail(s), c, d)

Digit == <<"0", "1", "2", "3", "4", "5", "6", "7", "8", "9">>

RECURSIVE Digits(_)
Digits(n) ==
    IF n < 10 THEN <<Digit[n + 1]>>
    ELSE Digits(n \div 10) \o <<Digit[(n % 10) + 1]>>

TwoDigits(n) == <<Digit[(n \div 10) + 1], Digit[(n % 10) + 1]>>


Sign(n) == IF n < 0 THEN <<"-">> ELSE <<>>

----------------------------------------------------------------------------
(* Floats.  A Python float is an IEEE 754 double.  Num(h) is the double    *)
(* nearest to h/100, which is what a cell written with two decimals reads  *)
(* as; every other double is <<"float", s, m, e>>, the value s * m * 2^e   *)
(* with s 1 or -1 and m a natural number of 53 bits (of fewer only when e  *)
(* is the least exponent, -1074, and <<>> for -0.0).  A natural number of  *)
(* any size is the sequence of its digits in base 2^15, the lowest first,  *)
(* without leading zeros.  The arithmetic works on the exact value         *)
(* [neg, m, e] of a double and rounds the exact result to the nearest      *)
(* double, ties to the even one, as IEEE 754 addition and division do.     *)
(* No result of the model comes near 2^1024, where a double overflows.     *)

\* the base of the digits and its bits
Limb == [base |-> 32768, bits |-> 15]

\* the bits of a double's mantissa and its least exponent
IEEE == [bits |-> 53, emin |-> -1074]

RECURSIVE Pow2(_)
Pow2(k) == IF k = 0 THEN 1 ELSE 2 * Pow2(k - 1)

\* the number of bits of n
RECURSIVE Bits(_)
Bits(n) == IF n = 0 THEN 0 ELSE 1 + Bits(n \div 2)

\* n zeros
Zeros(n) == [i \in 1..n |-> 0]

\* the digits of the natural number n
RECURSIVE BigOf(_)
BigOf(n) ==
    IF n = 0 THEN <<>> ELSE <<n % Limb.base>> \o BigOf(n \div Limb.base)

\* the number of at most 31 bits that the digits a write
BigToInt(a) ==
    (IF Len(a) > 0 THEN a[1] ELSE 0)
        + (IF Len(a) > 1 THEN a[2] * Limb.base ELSE 0)
        + (IF Len(a) > 2 THEN a[3] * Limb.base * Limb.base ELSE 0)

RECURSIVE BigTrim(_)
BigTrim(a) ==
    IF Len(a) = 0 \/ a[Len(a)] # 0 THEN a
    ELSE BigTrim(SubSeq(a, 1, Len(a) - 1))

BigDigit(a, i) == IF i <= Len(a) THEN a[i] ELSE 0

\* a + b + c from digit i on
RECURSIVE BigAddFrom(_, _, _, _)
BigAddFrom(a, b, i, c) ==
    IF i > Len(a) /\ i > Len(b) THEN (IF c = 0 THEN <<>> ELSE <<c>>)
    ELSE <<(BigDigit(a, i) + BigDigit(b, i) + c) % Limb.base>>
           \o BigAddFrom(a, b, i + 1,
                         (BigDigit(a, i) + BigDigit(b, i) + c) \div Limb.base)

BigAdd(a, b) == BigAddFrom(a, b, 1, 0)

\* a - b - c from digit i on, for a >= b
RECURSIVE BigSubFrom(_, _, _, _)
BigSubFrom(a, b, i, c) ==
    IF i > Len(a) THEN <<>>
    ELSE IF a[i] - BigDigit(b, i) - c < 0
    THEN <<a[i] - BigDigit(b, i) - c + Limb.base>>
           \o BigSubFrom(a, b, i + 1, 1)
    ELSE <<a[i] - BigDigit(b, i) - c>> \o BigSubFrom(a, b, i + 1, 0)

BigSub(a, b) == BigTrim(BigSubFrom(a, b, 1, 0))

RECURSIVE BigLessFrom(_, _, _)
BigLessFrom(a, b, i) ==
    IF i = 0 THEN FALSE
    ELSE IF a[i] # b[i] THEN a[i] < b[i]
    ELSE BigLessFrom(a, b, i - 1)

\* a < b
BigLess(a, b) ==
    IF Len(a) # Len(b) THEN Len(a) < Len(b) ELSE BigLessFrom(a, b, Len(a))

\* a * s + c from digit i on, for s up to the base
RECURSIVE BigTimesFrom(_, _, _, _)
BigTimesFrom(a, s, i, c) ==
    IF i > Len(a) THEN (IF c = 0 THEN <<>> ELSE <<c>>)
    ELSE <<(a[i] * s + c) % Limb.base>>
           \o BigTimesFrom(a, s, i + 1, (a[i] * s + c) \div Limb.base)

BigTimes(a, s) == BigTrim(BigTimesFrom(a, s, 1, 0))

\* a * 10^n
RECURSIVE BigTimesPow10(_, _)
BigTimesPow10(a, n) ==
    IF n = 0 THEN a
    ELSE IF n >= 4 THEN BigTimes(BigTimesPow10(a, n - 4), 10000)
    ELSE BigTimes(BigTimesPow10(a, n - 1), 10)

\* the number of bits of a
BigBits(a) ==
    IF Len(a) = 0 THEN 0
    ELSE Limb.bits * (Len(a) - 1) + Bits(a[Len(a)])

\* bit i of a, bit 0 being the lowest
BigBit(a, i) ==
    (BigDigit(a, i \div Limb.bits + 1) \div Pow2(i % Limb.bits)) % 2

\* a * 2^k
BigShl(a, k) ==
    IF Len(a) = 0 THEN <<>>
    ELSE Zeros(k \div Limb.bits) \o BigTimes(a, Pow2(k % Limb.bits))

\* a \div 2^k
BigShr(a, k) ==
    LET d == SubSeq(a, k \div Limb.bits + 1, Len(a))
        r == k % Limb.bits
    IN  BigTrim([i \in 1..Len(d) |->
                    d[i] \div Pow2(r)
                      + (BigDigit(d, i + 1) % Pow2(r)) * Pow2(Limb.bits - r)])

\* the k lowest bits of a are 0
BigLowZero(a, k) ==
    /\ \A i \in 1..Min(k \div Limb.bits, Len(a)) : a[i] = 0
    /\ BigDigit(a, k \div Limb.bits + 1) % Pow2(k % Limb.bits) = 0

\* a / 2^k to the nearest natural number, a tie to the even one
BigRoundShr(a, k) ==
    IF k <= 0 THEN BigShl(a, -k)
    ELSE BigAdd(BigShr(a, k),
                IF /\ BigBit(a, k - 1) = 1
                   /\ (~BigLowZero(a, k - 1) \/ BigBit(a, k) = 1)
                THEN <<1>> ELSE <<>>)

\* the digits of a from digit i up divided by s, for s up to the base:
\* the quotient and the remainder
RECURSIVE BigOverFrom(_, _, _)
BigOverFrom(a, s, i) ==
    IF i > Len(a) THEN [quo |-> <<>>, rem |-> 0]
    ELSE LET upper == BigOverFrom(a, s, i + 1)
         IN  [quo |-> <<(upper.rem * Limb.base + a[i]) \div s>> \o upper.quo,
              rem |-> (upper.rem * Limb.base + a[i]) % s]

\* the largest digit t with q * t <= r, which lies from lo to below hi
RECURSIVE BigQuoDigit(_, _, _, _)
BigQuoDigit(r, q, lo, hi) ==
    IF hi - lo = 1 THEN lo
    ELSE IF BigLess(r, BigTimes(q, (lo + hi) \div 2))
    THEN BigQuoDigit(r, q, lo, (lo + hi) \div 2)
    ELSE BigQuoDigit(r, q, (lo + hi) \div 2, hi)

\* the digits of p from digit i up divided by q: the quotient and the
\* remainder
RECURSIVE BigDivFrom(_, _, _)
BigDivFrom(p, q, i) ==
    IF i > Len(p) THEN [quo |-> <<>>, rem |-> <<>>]
    ELSE LET upper == BigDivFrom(p, q, i + 1)
         IN  CHOOSE d \in
               {[quo |-> <<t>> \o upper.quo,
                 rem |-> BigSub(BigTrim(<<p[i]>> \o upper.rem),
                                BigTimes(q, t))] :
                  t \in {BigQuoDigit(BigTrim(<<p[i]>> \o upper.rem), q,
                                     0, Limb.base)}} : TRUE

\* the quotient and the remainder of p by q, as digits
BigDivMod(p, q) ==
    IF Len(q) = 1
    THEN [BigOverFrom(p, q[1], 1) EXCEPT !.quo = BigTrim(@), !.rem = BigOf(@)]
    ELSE [BigDivFrom(p, q, 1) EXCEPT !.quo = BigTrim(@)]

\* 0.0 and -0.0
Zero(neg) == [neg |-> neg, m |-> <<>>, e |-> IEEE.emin]

\* the double of the rounded mantissa r and the exponent et of its last
\* bit: rounding up may have carried into one bit more than a double holds
Rounded(neg, r, et) ==
    IF BigBits(r) > IEEE.bits
    THEN [neg |-> neg, m |-> BigShr(r, 1), e |-> et + 1]
    ELSE [neg |-> neg, m |-> r, e |-> et]

\* the double nearest to m * 2^e: et is the exponent of its last bit
Nearest(neg, m, e) ==
    IF Len(m) = 0 THEN Zero(neg)
    ELSE LET et == Max(e + BigBits(m) - IEEE.bits, IEEE.emin)
         IN  Rounded(neg, BigRoundShr(m, et - e), et)

\* the quotient of a division with one bit more, set when the division
\* left a remainder
Sticky(d) ==
    BigAdd(BigTimes(d.quo, 2), IF Len(d.rem) = 0 THEN <<>> ELSE <<1>>)

\* the double nearest to 2^e * p / q: the quotient is taken with two bits
\* more than a double holds, and a bit below it tells that the division
\* left a remainder
Ratio(neg, p, q, e) ==
    IF Len(p) = 0 THEN Zero(neg)
    ELSE LET k == Max(IEEE.bits + 2 + BigBits(q) - BigBits(p), 0)
         IN  Nearest(neg, Sticky(BigDivMod(BigShl(p, k), q)), e - k - 1)

\* the sum of the numbers a * 2^e and b * 2^e with their signs, neither
\* being 0: equal numbers of opposite signs add up to 0.0
AddAligned(xneg, a, yneg, b, e) ==
    IF xneg # yneg /\ a = b THEN Zero(FALSE)
    ELSE Nearest(IF xneg = yneg \/ BigLess(b, a) THEN xneg ELSE yneg,
                 IF xneg = yneg THEN BigAdd(a, b)
                 ELSE IF BigLess(a, b) THEN BigSub(b, a)
                 ELSE BigSub(a, b),
                 e)

\* x + y of two doubles
FloatAdd(x, y) ==
    IF Len(x.m) = 0 /\ Len(y.m) = 0 THEN Zero(x.neg /\ y.neg)
    ELSE IF Len(x.m) = 0 THEN y
    ELSE IF Len(y.m) = 0 THEN x
    ELSE LET e == Min(x.e, y.e)
         IN  AddAligned(x.neg, BigShl(x.m, x.e - e),
                        y.neg, BigShl(y.m, y.e - e), e)

\* -x
FloatNeg(x) == [x EXCEPT !.neg = ~x.neg]

\* a * 2^e < b * 2^e with their signs
LessAligned(xneg, a, yneg, b) ==
    IF xneg # yneg THEN xneg /\ (Len(a) > 0 \/ Len(b) > 0)
    ELSE BigLess(IF xneg THEN b ELSE a, IF xneg THEN a ELSE b)

\* x < y
FloatLess(x, y) ==
    LET e == Min(x.e, y.e)
    IN  LessAligned(x.neg, BigShl(x.m, x.e - e), y.neg, BigShl(y.m, y.e - e))

\* the double written h hundredths
Hundredth(h) == Ratio(h < 0, BigOf(Abs(h)), <<100>>, 0)

\* the exact value of a float of the model that is written with its
\* mantissa and exponent
Double(v) == [neg |-> v[2] < 0, m |-> v[3], e |-> v[4]]

\* the exact value of a float of the model
Exact(v) == IF v[1] = "num" THEN Hundredth(v[2]) ELSE Double(v)

\* |x| * 100 to the nearest natural number, a tie to the even one
Hundredths(x) == BigRoundShr(BigTimes(x.m, 100), -x.e)

\* the float of the model that the double x of sign s is, hs being the
\* hundredths nearest to |x|, which are to be below 2^31
FloatNear(x, s, hs) ==
    IF /\ x.e + BigBits(x.m) <= 25
       /\ BigLess(hs, <<0, 0, 2>>)
       /\ Hundredth(s * BigToInt(hs)) = x
    THEN Num(s * BigToInt(hs))
    ELSE <<"float", s, x.m, x.e>>

\* the float of the model that the double x is
Float(x) ==
    IF Len(x.m) = 0 THEN (IF x.neg THEN NegZero ELSE Num(0))
    ELSE FloatNear(x, IF x.neg THEN -1 ELSE 1, Hundredths(x))

\* a - b of floats: NaN when either is NaN
Minus(a, b) ==
    IF a = NaN \/ b = NaN THEN NaN
    ELSE CHOOSE d \in {Float(FloatAdd(x[a], FloatNeg(x[b]))) :
                         x \in {[v \in {a, b} |-> Exact(v)]}} : TRUE

\* a < b of floats: false when either is NaN.  Two floats written in
\* hundredths are in the order of their hundredths
Less(a, b) ==
    /\ a # NaN
    /\ b # NaN
    /\ IF a[1] = "num" /\ b[1] = "num" THEN a[2] < b[2]
       ELSE \E x \in {[v \in {a, b} |-> Exact(v)]} : FloatLess(x[a], x[b])

\* abs(v)
AbsOf(v) ==
    IF v = NaN THEN NaN
    ELSE IF v[1] = "num" THEN Num(Abs(v[2]))
    ELSE IF Len(v[3]) = 0 THEN Num(0)
    ELSE <<"float", 1, v[3], v[4]>>

\* the decimal digits of the natural number a, none for 0
RECURSIVE BigDecimal(_)
BigDecimal(a) ==
    IF Len(a) = 0 THEN <<>>
    ELSE CHOOSE digits \in
           {BigDecimal(BigTrim(d.quo)) \o <<Digit[d.rem + 1]>> :
              d \in {BigOverFrom(a, 10, 1)}} : TRUE

\* the digits d filled with zeros in front to at least n digits
ZeroFill(d, n) == [i \in 1..(n - Len(d)) |-> "0"] \o d

\* the digits w with a point before the last two
Point2(w) ==
    SubSeq(w, 1, Len(w) - 2) \o <<".">> \o SubSeq(w, Len(w) - 1, Len(w))

\* f"{x:.2f}" of a double: the hundredths nearest to its exact value
Fixed2(x) ==
    (IF x.neg THEN <<"-">> ELSE <<>>)
        \o Point2(ZeroFill(BigDecimal(Hundredths(x)), 3))

\* |x| as a fraction p / q of natural numbers
Fraction(x) ==
    IF x.e >= 0 THEN [p |-> BigShl(x.m, x.e), q |-> <<1>>]
    ELSE [p |-> x.m, q |-> BigShl(<<1>>, -x.e)]

\* the fraction f times 10^n, for n above and below 0
FractionTimesPow10(f, n) ==
    IF n >= 0 THEN [f EXCEPT !.p = BigTimesPow10(@, n)]
    ELSE [f EXCEPT !.q = BigTimesPow10(@, -n)]

\* 1 <= f
AtLeastOne(f) == ~BigLess(f.p, f.q)

\* the x near est with 10^x <= f < 10^(x + 1)
DecimalExponentNear(f, est) ==
    CHOOSE x \in (est - 1)..(est + 1) :
        \A n \in {x, x + 1} : AtLeastOne(FractionTimesPow10(f, -n)) <=> n = x

\* the x with 10^x <= m * 2^e < 10^(x + 1): log10(2) is 0.30103 nearly,
\* which places x within one of the count from the number of bits
DecimalExponent(m, e) ==
    DecimalExponentNear(Fraction([m |-> m, e |-> e]),
                        ((e + BigBits(m) - 1) * 30103) \div 100000)

\* the double nearest to c * 10^s
FromDecimal(neg, c, s) ==
    Ratio(neg, IF s >= 0 THEN BigTimesPow10(c, s) ELSE c,
          IF s >= 0 THEN <<1>> ELSE BigTimesPow10(<<1>>, -s), 0)

\* of the natural number quo and the next one, up, the one that is in
\* reads: quo if both are and near holds, up if both are and it does not
ShortestPick(quo, up, reads, near) ==
    IF quo \in reads /\ (up \notin reads \/ near) THEN <<quo>>
    ELSE IF up \in reads THEN <<up>>
    ELSE <<>>

\* the same for the quotient and the remainder d of |x| / 10^s, unit
\* being the divisor: the natural numbers around the quotient are d.quo
\* and, when there is a remainder, the next one; d.quo is the nearer one
\* when the remainder is below half the divisor, or half of it and d.quo
\* is even
ShortestNear(x, s, d, unit) ==
    ShortestPick(d.quo, BigAdd(d.quo, <<1>>),
                 {c \in {d.quo} \cup (IF Len(d.rem) > 0
                                      THEN {BigAdd(d.quo, <<1>>)} ELSE {}) :
                     FromDecimal(x.neg, c, s) = x},
                 (\/ BigLess(BigTimes(d.rem, 2), unit)
                  \/ BigTimes(d.rem, 2) = unit /\ BigBit(d.quo, 0) = 0))

\* the decimal c * 10^s that reads back as the double x, the nearer to x
\* of the two natural numbers c around |x| / 10^s; none if neither does
ShortestOver(x, s, f) == ShortestNear(x, s, BigDivMod(f.p, f.q), f.q)

ShortestAt(x, s) == ShortestOver(x, s, FractionTimesPow10(Fraction(x), -s))

\* the first of the decimals at that there is, at[n] being the one of
\* n + 1 digits, with its exponent
ShortestFirst(at, x10) ==
    LET n == CHOOSE k \in 0..16 :
                Len(at[k]) > 0 /\ \A j \in 0..(k - 1) : Len(at[j]) = 0
    IN  [c |-> at[n][1], s |-> x10 - n]

ShortestFrom(x, x10) ==
    ShortestFirst([n \in 0..16 |-> ShortestAt(x, x10 - n)], x10)

\* the shortest decimal c * 10^s that reads back as the double x: 17
\* digits always do
Shortest(x) == ShortestFrom(x, DecimalExponent(x.m, x.e))

\* without the zeros at the end
RECURSIVE StripZeros(_)
StripZeros(d) ==
    IF Len(d) > 0 /\ d[Len(d)] = "0" THEN StripZeros(SubSeq(d, 1, Len(d) - 1))
    ELSE d

\* repr of a double above 0: d are the digits of the shortest decimal and
\* pt is the place of the point, the value being 0.d * 10^pt; written with
\* an exponent when pt is below -3 or above 16
ReprPoint(d, pt) ==
    IF pt > -4 /\ pt <= 16
    THEN IF pt <= 0
         THEN <<"0", ".">> \o [i \in 1..(-pt) |-> "0"] \o d
         ELSE IF pt >= Len(d)
         THEN d \o [i \in 1..(pt - Len(d)) |-> "0"] \o <<".", "0">>
         ELSE SubSeq(d, 1, pt) \o <<".">> \o SubSeq(d, pt + 1, Len(d))
    ELSE <<d[1]>>
           \o (IF Len(d) > 1 THEN <<".">> \o Tail(d) ELSE <<>>)
           \o <<"e", IF pt - 1 < 0 THEN "-" ELSE "+">>
           \o (IF Abs(pt - 1) < 10 THEN <<"0">> ELSE <<>>)
           \o Digits(Abs(pt - 1))

\* the same for all the digits of the shortest decimal and its exponent s
ReprDigits(all, s) == ReprPoint(StripZeros(all), Len(all) + s)

ReprShortest(short) == ReprDigits(BigDecimal(short.c), short.s)

\* repr(x) of a double that is not 0
Repr(x) == (IF x.neg THEN <<"-">> ELSE <<>>) \o ReprShortest(Shortest(x))

\* res += xs[i] for i from j to n, res starting as r
RECURSIVE AddUp(_, _, _, _)
AddUp(xs, j, n, r) ==
    IF n < j THEN r ELSE FloatAdd(AddUp(xs, j, n - 1, r), xs[n])

\* one of the eight running sums: xs[i] and every eighth before it
RECURSIVE AddEighth(_, _)
AddEighth(xs, i) ==
    IF i <= 8 THEN xs[i] ELSE FloatAdd(AddEighth(xs, i - 8), xs[i])

\* the running sums r[lo] to r[hi] added in pairs:
\* ((r[1] + r[2]) + (r[3] + r[4])) + ((r[5] + r[6]) + (r[7] + r[8]))
RECURSIVE AddPairs(_, _, _)
AddPairs(r, lo, hi) ==
    IF lo = hi THEN r[lo]
    ELSE FloatAdd(AddPairs(r, lo, (lo + hi) \div 2),
                  AddPairs(r, (lo + hi) \div 2 + 1, hi))

\* numpy's pairwise summation of the doubles xs (pairwise_sum of
\* numpy/core/src/umath/loops_utils.h.src): fewer than 8 are added one
\* after the other; up to 128 go into eight running sums that are added
\* in pairs, and the rest beyond a multiple of 8 is added to that; more
\* are split in two halves
RECURSIVE PairwiseSum(_)
PairwiseSum(xs) ==
    IF Len(xs) < 8 THEN AddUp(xs, 1, Len(xs), Zero(TRUE))
    ELSE IF Len(xs) <= 128
    THEN LET full == Len(xs) - (Len(xs) % 8)
         IN  AddUp(xs, full + 1, Len(xs),
                   AddPairs([j \in 1..8 |-> AddEighth(xs, full - 8 + j)],
                            1, 8))
    ELSE LET half == (Len(xs) \div 2) - ((Len(xs) \div 2) % 8)
         IN  FloatAdd(PairwiseSum(SubSeq(xs, 1, half)),
                      PairwiseSum(SubSeq(xs, half + 1, Len(xs))))

\* values.sum() of a float64 array: the sum starts from 0.0
ArraySum(xs) == FloatAdd(Zero(FALSE), PairwiseSum(xs))

\* f"{v:.2f}" of a float: the double nearest to h hundredths is written
\* as h hundredths, any other double as the hundredths nearest to its
\* exact value, and NaN as "nan"
Format2(v) ==
    IF v = NaN THEN <<"n", "a", "n">>
    ELSE IF v[1] = "num"
    THEN Sign(v[2]) \o Digits(Abs(v[2]) \div 100) \o <<".">>
           \o TwoDigits(Abs(v[2]) % 100)
    ELSE Fixed2(Double(v))

\* str(v): a str is itself, None is "None", NaN is "nan", a float the
\* shortest decimal that reads back as it ("9.0", "12.5", "12.25",
\* "10.004999999999999")
Str(v) ==
    IF IsNum(v)
    THEN IF v[1] = "num"
         THEN CHOOSE short \in
                {IF f[Len(f)] = "0" THEN SubSeq(f, 1, Len(f) - 1) ELSE f :
                   f \in {Format2(v)}} : TRUE
         ELSE IF Len(v[3]) = 0 THEN <<"-", "0", ".", "0">>
         ELSE Repr(Double(v))
    ELSE StrOf(v)

\* s.split(): the maximal runs of non-whitespace characters
RECURSIVE SplitFrom(_, _, _)
SplitFrom(s, word, words) ==
    IF Len(s) = 0
    THEN (IF Len(word) > 0 THEN Append(words, word) ELSE words)
    ELSE IF s[1] \in Whitespace
         THEN SplitFrom(Tail(s), <<>>,
                        IF Len(word) > 0 THEN Append(words, word) ELSE words)
         ELSE SplitFrom(Tail(s), Append(word, s[1]), words)

Split(s) == SplitFrom(s, <<>>, <<>>)

\* sep.join(parts)
RECURSIVE Join(_, _)
Join(sep, parts) ==
    IF Len(parts) = 0 THEN <<>>
    ELSE IF Len(parts) = 1 THEN parts[1]
    ELSE parts[1] \o sep \o Join(sep, Tail(parts))

\* value.lower().replace(' ', '_').replace(',', '').replace("'", '')
Slug(value) ==
    Replace(Replace(Replace(ToLower(value), " ", <<"_">>), ",", <<>>),
            "'", <<>>)

HeadlineWords == 3

HeadlineSlugLen == 50

\* '_'.join(headline.lower().split()[:3]).replace(',', '').replace("'", '')
\*    .replace('"', '').replace('-', '_')[:50]
HeadlineSlug(headline) ==
    LET words == PySlice(Split(ToLower(headline)), 0, HeadlineWords)
    IN  PySlice(Replace(Replace(Replace(Replace(Join(<<"_">>, words),
                    ",", <<>>), "'", <<>>), "\"", <<>>), "-", <<"_">>),
                0, HeadlineSlugLen)

S_default == <<"d", "e", "f", "a", "u", "l", "t">>

S_student_1 == <<"s", "t", "u", "d", "e", "n", "t", "_", "1">>

S_climate_ == <<"c", "l", "i", "m", "a", "t", "e", "_">>

S_global_temp_ == <<"g", "l", "o", "b", "a", "l", "_", "t", "e", "m", "p", "_">>

S_headline_ == <<"h", "e", "a", "d", "l", "i", "n", "e", "_">>

S_nan == <<"n", "a", "n">>

\* the prefix rule shared by the lesson-id branches
Prefixed(dataset_name, fallback, slug) ==
    IF Truthy(dataset_name) /\ dataset_name # S_default
    THEN Str(dataset_name) \o <<"_">> \o slug
    ELSE fallback \o slug

\* A column argument is a key name; the argument None is the empty name "",
\* which the code's truth tests treat alike.
NoColumn == ""

\* the fallback branches tried in another order: the date before the country
LessonMetaDateFirst(meta, record, lesson_id_column, dataset_name) ==
    IF lesson_id_column # NoColumn /\ lesson_id_column \in DOMAIN record
    THEN LET lesson_value == Str(record[lesson_id_column])
         IN  Put(Put(meta, "lesson_id",
                     Prefixed(dataset_name, <<>>, Slug(lesson_value))),
                 lesson_id_column, lesson_value)
    ELSE IF "dt" \in DOMAIN record
    THEN Put(meta, "lesson_id", S_global_temp_ \o Str(record["dt"]))
    ELSE IF "Country" \in DOMAIN record
    THEN LET country == Str(record["Country"])
         IN  Put(Put(meta, "lesson_id",
                     Prefixed(dataset_name, S_climate_, Slug(country))),
                 "country", country)
    ELSE IF "Headline" \in DOMAIN record
    THEN Put(meta, "lesson_id",
             Prefixed(dataset_name, S_headline_,
                      HeadlineSlug(Str(record["Headline"]))))
    ELSE meta

\* the lesson-id branch of the metadata code
LessonMeta(meta, record, lesson_id_column, dataset_name) ==
    IF lesson_id_column # NoColumn /\ lesson_id_column \in DOMAIN record
    THEN LET lesson_value == Str(record[lesson_id_column])
         IN  Put(Put(meta, "lesson_id",
                     Prefixed(dataset_name, <<>>, Slug(lesson_value))),
                 lesson_id_column, lesson_value)
    ELSE IF "Country" \in DOMAIN record
    THEN LET country == Str(record["Country"])
         IN  Put(Put(meta, "lesson_id",
                     Prefixed(dataset_name, S_climate_, Slug(country))),
                 "country", country)
    ELSE IF "dt" \in DOMAIN record
    THEN Put(meta, "lesson_id", S_global_temp_ \o Str(record["dt"]))
    ELSE IF "Headline" \in DOMAIN record
    THEN Put(meta, "lesson_id",
             Prefixed(dataset_name, S_headline_,
                      HeadlineSlug(Str(record["Headline"]))))
    ELSE meta

\* a person-id branch without the default
PersonMetaNoDefault(meta, record, person_id_column) ==
    IF person_id_column # NoColumn /\ person_id_column \in DOMAIN record
    THEN Put(meta, "person_id", record[person_id_column])
    ELSE meta

\* the person-id branch
PersonMeta(meta, record, person_id_column) ==
    IF person_id_column # NoColumn /\ person_id_column \in DOMAIN record
    THEN Put(meta, "person_id", record[person_id_column])
    ELSE Put(meta, "person_id", S_student_1)

\* a copy that keeps what the code has already written under a key
CopyFieldsKeepFirst(meta, record, text_column) ==
    [x \in DOMAIN meta \cup (DOMAIN record \ {text_column}) |->
        IF x \in DOMAIN meta THEN meta[x] ELSE record[x]]

\* for key, value in record.items(): if key != text_column: meta[key] = value
CopyFields(meta, record, text_column) ==
    [x \in DOMAIN meta \cup (DOMAIN record \ {text_column}) |->
        IF x \in DOMAIN record \ {text_column} THEN record[x] ELSE meta[x]]

\* the metadata of every chunk of one record
BuildMeta(record, text_column, lesson_id_column, person_id_column, dataset_name) ==
    LET m0 == Put(EmptyDict, "dataset_name",
                  IF Truthy(dataset_name) THEN dataset_name ELSE S_default)
        m1 == LessonMeta(m0, record, lesson_id_column, dataset_name)
        m2 == PersonMeta(m1, record, person_id_column)
    IN  CopyFields(m2, record, text_column)

----------------------------------------------------------------------------
(* _create_text_from_csv_record.  The result is [status, text]: building   *)
(* the text raises when a part is not a str (" ".join) or when a value     *)
(* formatted with :.2f is not a number.                                    *)

Ok(text) == [status |-> "ok", text |-> text]

Raised == [status |-> "raised", text |-> <<>>]

\* " ".join(text_parts) if text_parts else "": raises on a part that is no str
JoinParts(parts) ==
    IF \E i \in 1..Len(parts) : ~IsStr(parts[i]) THEN Raised
    ELSE Ok(Join(<<" ">>, parts))

S_headline_label == <<"C", "l", "i", "m", "a", "t", "e", " ", "n", "e", "w", "s", " ", "h", "e", "a", "d", "l", "i", "n", "e", ":", " ">>

S_sentiment_label == <<"S", "e", "n", "t", "i", "m", "e", "n", "t", " ", "a", "n", "a", "l", "y", "s", "i", "s", ":", " ">>

S_context_label == <<"C", "o", "n", "t", "e", "x", "t", ":", " ">>

\* the headline / content / sentiment / justification branch
HeadlineText(record) ==
    LET headline      == GetOr(record, "Headline", <<>>)
        content       == GetOr(record, "Content", <<>>)
        sentiment     == GetOr(record, "Sentiment", <<>>)
        justification == GetOr(record, "Justification", <<>>)
        p1 == IF Truthy(headline)
              THEN <<S_headline_label \o Str(headline)>> ELSE <<>>
        p2 == IF Truthy(content) THEN <<content>>
              ELSE IF Truthy(headline) THEN <<headline>> ELSE <<>>
        p3 == IF Truthy(sentiment)
              THEN <<S_sentiment_label \o Str(sentiment)>> ELSE <<>>
        p4 == IF Truthy(justification)
              THEN <<S_context_label \o Str(justification)>> ELSE <<>>
    IN  JoinParts(p1 \o p2 \o p3 \o p4)

\* a value that is present: not None and str(value) != 'nan'
Present(v) == v # None /\ Str(v) # S_nan

\* the fields formatted with :.2f, in the order the code reads them,
\* each with the words before the number
NumberFields ==
    <<<<"AverageTemperature", <<"A", "v", "e", "r", "a", "g", "e", " ", "t", "e", "m", "p", "e", "r", "a", "t", "u", "r", "e", ":", " ">>>>,
      <<"AverageTemperatureUncertainty", <<"T", "e", "m", "p", "e", "r", "a", "t", "u", "r", "e", " ", "u", "n", "c", "e", "r", "t", "a", "i", "n", "t", "y", ":", " ">>>>,
      <<"LandAverageTemperature", <<"G", "l", "o", "b", "a", "l", " ", "l", "a", "n", "d", " ", "a", "v", "e", "r", "a", "g", "e", " ", "t", "e", "m", "p", "e", "r", "a", "t", "u", "r", "e", ":", " ">>>>,
      <<"LandAndOceanAverageTemperature",
        <<"G", "l", "o", "b", "a", "l", " ", "l", "a", "n", "d", " ", "a", "n", "d", " ", "o", "c", "e", "a", "n", " ", "a", "v", "e", "r", "a", "g", "e", " ", "t", "e", "m", "p", "e", "r", "a", "t", "u", "r", "e", ":", " ">>>>>>

S_degrees == <<"°", "C", ".">>

\* the part a number field adds: none when the field is missing or empty
NumberPart(record, n) ==
    IF NumberFields[n][1] \in DOMAIN record
       /\ Present(record[NumberFields[n][1]])
    THEN <<NumberFields[n][2] \o Format2(record[NumberFields[n][1]])
             \o S_degrees>>
    ELSE <<>>

\* a field whose :.2f formatting raises: present and not a number
BadNumber(record, n) ==
    /\ NumberFields[n][1] \in DOMAIN record
    /\ Present(record[NumberFields[n][1]])
    /\ ~IsNum(record[NumberFields[n][1]])

\* the generic climate branch
ClimateText(record, text_column) ==
    LET p1 == IF "Country" \in DOMAIN record
              THEN <<<<"C", "l", "i", "m", "a", "t", "e", " ", "d", "a", "t", "a", " ", "f", "o", "r", " ">> \o Str(record["Country"])
                       \o <<":">>>>
              ELSE <<>>
        p3 == IF "dt" \in DOMAIN record /\ Truthy(record["dt"])
              THEN <<<<"D", "a", "t", "e", ":", " ">> \o Str(record["dt"]) \o <<".">>>>
              ELSE <<>>
    IN  IF \E n \in 1..Len(NumberFields) : BadNumber(record, n) THEN Raised
        ELSE IF text_column # NoColumn /\ text_column \in DOMAIN record
                /\ Truthy(record[text_column])
        THEN Ok(Str(record[text_column]))
        ELSE JoinParts(p1 \o NumberPart(record, 1) \o p3
                       \o NumberPart(record, 2) \o NumberPart(record, 3)
                       \o NumberPart(record, 4))

CreateTextFromCsvRecord(record, text_column) ==
    IF "text" \in DOMAIN record THEN Ok(record["text"])
    ELSE IF "Headline" \in DOMAIN record \/ "Content" \in DOMAIN record
    THEN HeadlineText(record)
    ELSE ClimateText(record, text_column)

----------------------------------------------------------------------------
(* add_documents.  A call returns [status, documents, metadata, index]:    *)
(* the store after the call.                                               *)

StoreOf(status, docs, metas, ix) ==
    [status |-> status, documents |-> docs, metadata |-> metas, index |-> ix]

\* the embeddings list built back to front
EmbedAllReversed(new_docs) ==
    [n \in 1..Len(new_docs) |-> Embed(new_docs[Len(new_docs) + 1 - n])]

\* the embeddings list built by the loop over the documents
EmbedAll(new_docs) == [n \in 1..Len(new_docs) |-> Embed(new_docs[n])]

\* add_documents that embeds and fills the index before it compares the
\* lengths of its two arguments
AddDocumentsIndexFirst(docs, metas, ix, new_docs, has_metadata, new_metas) ==
    LET meta_list == IF has_metadata THEN new_metas
                     ELSE [n \in 1..Len(new_docs) |-> EmptyDict]
    IN  IF Len(new_docs) = 0
        THEN StoreOf("raised", docs, metas, ix)
        ELSE IF Len(new_docs) # Len(meta_list)
        THEN StoreOf("raised", docs, metas,
                     IndexAdd(ix, EmbedAll(new_docs)))
        ELSE StoreOf("ok", docs \o new_docs, metas \o meta_list,
                     IndexAdd(ix, EmbedAll(new_docs)))

\* add_documents that assigns the new lists instead of extending the old
AddDocumentsAssign(docs, metas, ix, new_docs, has_metadata, new_metas) ==
    LET meta_list == IF has_metadata THEN new_metas
                     ELSE [n \in 1..Len(new_docs) |-> EmptyDict]
    IN  IF Len(new_docs) # Len(meta_list) \/ Len(new_docs) = 0
        THEN StoreOf("raised", docs, metas, ix)
        ELSE StoreOf("ok", new_docs, meta_list, EmbedAll(new_docs))

\* add_documents(documents, metadata); has_metadata is FALSE for
\* metadata=None, which stands for one empty dict per document.
\* index.add raises on an empty batch (the array has no second axis).
AddDocuments(docs, metas, ix, new_docs, has_metadata, new_metas) ==
    LET meta_list == IF has_metadata THEN new_metas
                     ELSE [n \in 1..Len(new_docs) |-> EmptyDict]
    IN  IF Len(new_docs) # Len(meta_list)
        THEN StoreOf("raised", docs, metas, ix)
        ELSE IF Len(new_docs) = 0
        THEN StoreOf("raised", docs, metas, ix)
        ELSE StoreOf("ok", docs \o new_docs, metas \o meta_list,
                     IndexAdd(ix, EmbedAll(new_docs)))

----------------------------------------------------------------------------
(* load_from_dataset.  A dataset file is [format, parses, top, data]:      *)
(* its extension, whether its content parses, whether the parsed content   *)
(* is a list or a single object, and the parsed content.  The rows of a    *)
(* csv file are the records of DataFrame.to_dict('records'), an empty cell *)
(* being NaN.                                                              *)

CsvRowLimit == 1000

\* the columns whose name starts with "Unnamed", as pandas names the index
\* column "Unnamed: 0" when the file's first header cell is empty:
\* df.columns.str.contains('^Unnamed')
UnnamedColumns(columns) ==
    {x \in columns : Len(x) >= 7 /\ SubSeq(x, 1, 7) = "Unnamed"}

\* df.loc[:, ~df.columns.str.contains('^Unnamed')]
DropUnnamed(rows) ==
    [i \in 1..Len(rows) |->
        [x \in DOMAIN rows[i] \ UnnamedColumns(DOMAIN rows[i]) |->
            rows[i][x]]]

\* df.columns: every row of a table has the same columns
Columns(rows) == UNION {DOMAIN rows[i] : i \in 1..Len(rows)}

NotNa(v) == v # NaN /\ v # None

\* df[df['AverageTemperature'].notna()]
DropMissingTemperature(rows) ==
    LET keep(r) == NotNa(r["AverageTemperature"])
    IN  IF "AverageTemperature" \in Columns(rows)
        THEN SelectSeq(rows, keep) ELSE rows

(* _process_climate_csv: the narratives of a per-country temperature table *)

\* the fixed parts of the three narratives and the data_type values
ClimateWords ==
    [summary_for |->
        <<"C", "l", "i", "m", "a", "t", "e", " ", "a", "n", "d", " ", "t", "e", "m", "p", "e", "r", "a", "t", "u", "r", "e", " ", "d", "a", "t", "a", " ", "f", "o", "r", " ">>,
     average_is |->
        <<":", " ", "T", "h", "e", " ", "a", "v", "e", "r", "a", "g", "e", " ", "t", "e", "m", "p", "e", "r", "a", "t", "u", "r", "e", " ", "i", "s", " ">>,
     range_from |->
        <<"°", "C", ",", " ", "w", "i", "t", "h", " ", "a", " ", "r", "a", "n", "g", "e", " ", "f", "r", "o", "m", " ">>,
     range_to |->
        <<"°", "C", " ", "t", "o", " ">>,
     spans_from |->
        <<"°", "C", ".", " ", "H", "i", "s", "t", "o", "r", "i", "c", "a", "l", " ", "d", "a", "t", "a", " ", "s", "p", "a", "n", "s", " ", "f", "r", "o", "m", " ">>,
     to |->
        <<" ", "t", "o", " ">>,
     covering |->
        <<",", " ", "c", "o", "v", "e", "r", "i", "n", "g", " ", "a", "p", "p", "r", "o", "x", "i", "m", "a", "t", "e", "l", "y", " ">>,
     years |->
        <<" ", "y", "e", "a", "r", "s", ".">>,
     trend_for |->
        <<"T", "e", "m", "p", "e", "r", "a", "t", "u", "r", "e", " ", "t", "r", "e", "n", "d", " ", "a", "n", "a", "l", "y", "s", "i", "s", " ", "f", "o", "r", " ">>,
     stable |->
        <<":", " ", "T", "e", "m", "p", "e", "r", "a", "t", "u", "r", "e", "s", " ", "h", "a", "v", "e", " ", "r", "e", "m", "a", "i", "n", "e", "d", " ", "r", "e", "l", "a", "t", "i", "v", "e", "l", "y", " ", "s", "t", "a", "b", "l", "e", ",", " ", "w", "i", "t", "h", " ", "a", "n", " ", "a", "v", "e", "r", "a", "g", "e", " ", "c", "h", "a", "n", "g", "e", " ", "o", "f", " ">>,
     between_early |->
        <<"°", "C", " ", "b", "e", "t", "w", "e", "e", "n", " ", "t", "h", "e", " ", "e", "a", "r", "l", "y", " ", "p", "e", "r", "i", "o", "d", " ", "(", "a", "v", "e", "r", "a", "g", "e", " ">>,
     and_late |->
        <<"°", "C", ")", " ", "a", "n", "d", " ", "l", "a", "t", "e", " ", "p", "e", "r", "i", "o", "d", " ", "(", "a", "v", "e", "r", "a", "g", "e", " ">>,
     close |->
        <<"°", "C", ")", ".">>,
     have |->
        <<":", " ", "T", "e", "m", "p", "e", "r", "a", "t", "u", "r", "e", "s", " ", "h", "a", "v", "e", " ">>,
     increased |->
        <<"i", "n", "c", "r", "e", "a", "s", "e", "d">>,
     decreased |->
        <<"d", "e", "c", "r", "e", "a", "s", "e", "d">>,
     by |->
        <<" ", "b", "y", " ">>,
     over_period |->
        <<"°", "C", " ", "o", "v", "e", "r", " ", "t", "h", "e", " ", "r", "e", "c", "o", "r", "d", "e", "d", " ", "p", "e", "r", "i", "o", "d", ",", " ", "f", "r", "o", "m", " ", "a", "n", " ", "e", "a", "r", "l", "y", " ", "a", "v", "e", "r", "a", "g", "e", " ", "o", "f", " ">>,
     to_later |->
        <<"°", "C", " ", "t", "o", " ", "a", " ", "l", "a", "t", "e", "r", " ", "a", "v", "e", "r", "a", "g", "e", " ", "o", "f", " ">>,
     occurred |->
        <<"°", "C", ".", " ", "T", "h", "i", "s", " ", "c", "h", "a", "n", "g", "e", " ", "o", "c", "c", "u", "r", "r", "e", "d", " ", "b", "e", "t", "w", "e", "e", "n", " ">>,
     and |->
        <<" ", "a", "n", "d", " ">>,
     recent_for |->
        <<"R", "e", "c", "e", "n", "t", " ", "t", "e", "m", "p", "e", "r", "a", "t", "u", "r", "e", " ", "d", "a", "t", "a", " ", "f", "o", "r", " ">>,
     last_10 |->
        <<" ", "(", "l", "a", "s", "t", " ", "1", "0", " ", "y", "e", "a", "r", "s", ")", ":", " ", "T", "h", "e", " ", "a", "v", "e", "r", "a", "g", "e", " ", "t", "e", "m", "p", "e", "r", "a", "t", "u", "r", "e", " ", "w", "a", "s", " ">>,
     this_is |->
        <<" ", "T", "h", "i", "s", " ", "i", "s", " ">>,
     warmer |->
        <<"°", "C", " ", "w", "a", "r", "m", "e", "r", " ", "t", "h", "a", "n", " ", "t", "h", "e", " ", "h", "i", "s", "t", "o", "r", "i", "c", "a", "l", " ", "a", "v", "e", "r", "a", "g", "e", " ", "o", "f", " ">>,
     cooler |->
        <<"°", "C", " ", "c", "o", "o", "l", "e", "r", " ", "t", "h", "a", "n", " ", "t", "h", "e", " ", "h", "i", "s", "t", "o", "r", "i", "c", "a", "l", " ", "a", "v", "e", "r", "a", "g", "e", " ", "o", "f", " ">>,
     temperature |->
        <<"t", "e", "m", "p", "e", "r", "a", "t", "u", "r", "e">>,
     trend |->
        <<"t", "r", "e", "n", "d">>,
     recent |->
        <<"r", "e", "c", "e", "n", "t">>]

\* df['Country'].unique(): the distinct values in the order of their first
\* row; the missing value counts as one of them
RECURSIVE UniqueFrom(_, _, _)
UniqueFrom(rows, i, out) ==
    IF i > Len(rows) THEN out
    ELSE IF \E n \in 1..Len(out) : out[n] = rows[i]["Country"]
         THEN UniqueFrom(rows, i + 1, out)
         ELSE UniqueFrom(rows, i + 1, Append(out, rows[i]["Country"]))

CountryLimit == 50

\* every distinct country, without the limit
FirstCountriesAll(rows) == UniqueFrom(rows, 1, <<>>)

\* df['Country'].unique()[:50]
FirstCountries(rows) ==
    LET all == UniqueFrom(rows, 1, <<>>)
    IN  SubSeq(all, 1, Min(CountryLimit, Len(all)))

\* df[df['Country'] == country]: the missing value equals nothing
CountryData(rows, country) ==
    LET same(r) == r["Country"] = country
    IN  IF NotNa(country) THEN SelectSeq(rows, same) ELSE <<>>

\* no date: what pd.to_datetime(..., errors='coerce') gives for a cell that
\* is no date
NaT == <<"NaT">>

\* a cell, or a table, whose reading is not the same in every pandas the
\* program may run on: the model does not say what the program does then
Outside == <<"outside">>

IsDigits(s) == \A i \in 1..Len(s) : \E n \in 1..10 : Digit[n] = s[i]

RECURSIVE ToInt(_)
ToInt(s) ==
    IF Len(s) = 0 THEN 0
    ELSE 10 * ToInt(SubSeq(s, 1, Len(s) - 1))
         + (CHOOSE n \in 0..9 : Digit[n + 1] = s[Len(s)])

IsLeap(y) == (y % 4 = 0 /\ y % 100 # 0) \/ y % 400 = 0

DaysInMonth(y, m) ==
    IF m = 2 THEN (IF IsLeap(y) THEN 29 ELSE 28)
    ELSE IF m \in {4, 6, 9, 11} THEN 30 ELSE 31

\* the day number of a date (days since 1970-01-01)
DayNumber(date) ==
    LET y   == IF date[2] <= 2 THEN date[1] - 1 ELSE date[1]
        era == y \div 400
        yoe == y - era * 400
        mp  == (date[2] + 9) % 12
        doy == (153 * mp + 2) \div 5 + date[3] - 1
        doe == yoe * 365 + yoe \div 4 - yoe \div 100 + doy
    IN  era * 146097 + doe - 719468

\* a Timestamp of nanoseconds holds the days from 1677-09-22 to
\* 2262-04-11, which are so many days before and after 1970-01-01
Timestamp == [days |-> 106751]

\* the way a cell writes a date: "YYYY", "YYYY-MM-DD" or "YYYY/MM/DD";
\* "none" for any other cell
DateForm(v) ==
    IF ~IsStr(v) THEN "none"
    ELSE IF Len(v) = 4 /\ IsDigits(v) THEN "year"
    ELSE IF Len(v) = 10 /\ v[5] = v[8] /\ v[5] \in {"-", "/"}
            /\ IsDigits(SubSeq(v, 1, 4)) /\ IsDigits(SubSeq(v, 6, 7))
            /\ IsDigits(SubSeq(v, 9, 10))
    THEN (IF v[5] = "-" THEN "dash" ELSE "slash")
    ELSE "none"

\* pd.to_datetime of a cell, errors='coerce': a cell in one of the three
\* forms is its date, as <<y, m, d>>; a missing cell, the empty string and
\* a single character that is no digit are NaT.  A date that is not in
\* the calendar or not among the days a Timestamp of nanoseconds holds, a
\* number, and every other string are read differently by different
\* versions of pandas
ToDatetime(v) ==
    IF v = None \/ v = NaN \/ v = <<>> THEN NaT
    ELSE IF IsNum(v) THEN Outside
    ELSE IF Len(v) = 1 THEN (IF IsDigits(v) THEN Outside ELSE NaT)
    ELSE IF DateForm(v) = "none" THEN Outside
    ELSE CHOOSE date \in
           {IF /\ ymd[1] >= 1
               /\ ymd[2] \in 1..12
               /\ ymd[3] >= 1
               /\ ymd[3] <= DaysInMonth(ymd[1], ymd[2])
               /\ DayNumber(ymd) \in (-Timestamp.days)..Timestamp.days
            THEN ymd ELSE Outside :
              ymd \in {IF Len(v) = 4 THEN <<ToInt(v), 1, 1>>
                       ELSE <<ToInt(SubSeq(v, 1, 4)), ToInt(SubSeq(v, 6, 7)),
                              ToInt(SubSeq(v, 9, 10))>>}} : TRUE

\* sort_values('dt') of rows that hold dates: insertion of row r into the
\* sorted rows, after the rows of the same date
RECURSIVE InsertByDate(_, _)
InsertByDate(sorted, r) ==
    IF Len(sorted) = 0 THEN <<r>>
    ELSE IF DayNumber(r["dt"]) < DayNumber(sorted[1]["dt"])
         THEN <<r>> \o sorted
         ELSE <<sorted[1]>> \o InsertByDate(Tail(sorted), r)

RECURSIVE SortByDate(_, _, _)
SortByDate(rows, i, sorted) ==
    IF i > Len(rows) THEN sorted
    ELSE SortByDate(rows, i + 1, InsertByDate(sorted, rows[i]))

\* the three statements under "if 'dt' in country_data.columns": the cells
\* become dates, the rows are sorted, and the rows without a date go
Dated(country_data) ==
    LET parsed  == [i \in 1..Len(country_data) |->
                       [country_data[i] EXCEPT !["dt"] = ToDatetime(@)]]
        has(r)  == r["dt"] # NaT
    IN  SortByDate(SelectSeq(parsed, has), 1, <<>>)

\* pd.Timedelta(days=365*10)
RecentDays == 3650

\* the rows of a country that the model does not follow the program on:
\* a dt cell that ToDatetime does not read; dates written in more than one
\* form (pandas 2 reads a column in the form of its first date, pandas 1
\* each cell in its own); rows of one date with different temperatures
\* (sort_values does not keep the order of equal dates); a temperature
\* that is no float; and a latest date less than ten years after the first
\* day of a Timestamp
OutsideRows(country_data, columns) ==
    \E dt \in {[i \in 1..Len(country_data) |->
                   ToDatetime(country_data[i]["dt"])]} :
    \E dates \in {{i \in 1..Len(country_data) : dt[i] \notin {NaT, Outside}}} :
        \/ \E i \in 1..Len(country_data) : dt[i] = Outside
        \/ Cardinality({DateForm(country_data[i]["dt"]) : i \in dates}) > 1
        \/ /\ "AverageTemperature" \in columns
           /\ \/ \E i, j \in dates :
                    /\ dt[i] = dt[j]
                    /\ country_data[i]["AverageTemperature"]
                          # country_data[j]["AverageTemperature"]
              \/ \E i \in dates :
                    /\ country_data[i]["AverageTemperature"] # NaN
                    /\ ~IsNum(country_data[i]["AverageTemperature"])
              \/ /\ dates # {}
                 /\ \A i \in dates :
                       DayNumber(dt[i]) - RecentDays < -Timestamp.days

\* the temperatures of the rows as doubles, a missing one as 0.0
Temperatures(country_rows) ==
    [i \in 1..Len(country_rows) |->
        IF country_rows[i]["AverageTemperature"] = NaN THEN Zero(FALSE)
        ELSE Exact(country_rows[i]["AverageTemperature"])]

\* country_data['AverageTemperature'].mean(): the sum of the temperatures
\* that are there, as numpy adds them up, divided by their number; NaN
\* when none is there
MeanTemperature(country_rows) ==
    LET count == Cardinality({i \in 1..Len(country_rows) :
                     country_rows[i]["AverageTemperature"] # NaN})
    IN  IF count = 0 THEN NaN
        ELSE CHOOSE mean \in
               {Float(Ratio(total.neg, total.m, BigOf(count), total.e)) :
                  total \in {ArraySum(Temperatures(country_rows))}} : TRUE

\* country_data['AverageTemperature'].min(): NaN when none is there
MinTemperature(country_rows) ==
    LET cells == {country_rows[i]["AverageTemperature"] :
                     i \in 1..Len(country_rows)} \ {NaN}
    IN  IF cells = {} THEN NaN
        ELSE CHOOSE c \in cells : \A d \in cells : ~Less(d, c)

\* country_data['AverageTemperature'].max()
MaxTemperature(country_rows) ==
    LET cells == {country_rows[i]["AverageTemperature"] :
                     i \in 1..Len(country_rows)} \ {NaN}
    IN  IF cells = {} THEN NaN
        ELSE CHOOSE c \in cells : \A d \in cells : ~Less(c, d)

\* date.strftime('%Y')
FormatYear(date) == Digits(date[1])

\* date.strftime('%Y-%m-%d')
FormatDate(date) ==
    Digits(date[1]) \o <<"-">> \o TwoDigits(date[2]) \o <<"-">>
        \o TwoDigits(date[3])

\* f"{years_span:.1f}" with years_span = days / 365.25
FormatYearsSpan(days) ==
    LET tenths == (2000 * days + 36525) \div 73050
    IN  Digits(tenths \div 10) \o <<".">> \o <<Digit[(tenths % 10) + 1]>>

\* 1. Overall summary
SummaryRecord(country, country_rows) ==
    LET date_min == country_rows[1]["dt"]
        date_max == country_rows[Len(country_rows)]["dt"]
    IN  CHOOSE record \in
          {[Country |-> country, AverageTemperature |-> avg_temp,
            data_type |-> ClimateWords.temperature,
            text |-> ClimateWords.summary_for \o Str(country) \o ClimateWords.average_is
                       \o Format2(avg_temp) \o ClimateWords.range_from
                       \o Format2(MinTemperature(country_rows)) \o ClimateWords.range_to
                       \o Format2(MaxTemperature(country_rows)) \o ClimateWords.spans_from
                       \o FormatDate(date_min) \o ClimateWords.to \o FormatDate(date_max)
                       \o ClimateWords.covering
                       \o FormatYearsSpan(DayNumber(date_max)
                                            - DayNumber(date_min))
                       \o ClimateWords.years] :
             avg_temp \in {MeanTemperature(country_rows)}} : TRUE

TrendMinRows == 20

\* half a degree, in hundredths: 0.5 is a double
TrendThreshold == 50

\* the trend narrative with "<=" where the code has "<": a change of
\* exactly half a degree reads as stable
TrendRecordStableAtThreshold(country, country_rows) ==
    LET split_point  == Len(country_rows) \div 3
        early_period == SubSeq(country_rows, 1, split_point)
        late_period  == SubSeq(country_rows, Len(country_rows) - split_point + 1, Len(country_rows))
    IN  CHOOSE record \in
          {CHOOSE with_change \in
             {[Country |-> country, AverageTemperature |-> late_avg,
               data_type |-> ClimateWords.trend,
               text |->
                  IF ~Less(Num(TrendThreshold), AbsOf(temp_change))
                     /\ temp_change # NaN
                  THEN ClimateWords.trend_for \o Str(country) \o ClimateWords.stable
                         \o Format2(temp_change) \o ClimateWords.between_early
                         \o Format2(early_avg) \o ClimateWords.and_late
                         \o Format2(late_avg) \o ClimateWords.close
                  ELSE ClimateWords.trend_for \o Str(country) \o ClimateWords.have
                         \o (IF Less(Num(0), temp_change)
                             THEN ClimateWords.increased
                             ELSE ClimateWords.decreased)
                         \o ClimateWords.by \o Format2(AbsOf(temp_change))
                         \o ClimateWords.over_period \o Format2(early_avg)
                         \o ClimateWords.to_later
                         \o Format2(late_avg) \o ClimateWords.occurred
                         \o FormatYear(early_period[1]["dt"]) \o ClimateWords.and
                         \o FormatYear(late_period[Len(late_period)]["dt"])
                         \o <<".">>] :
                temp_change \in {Minus(late_avg, early_avg)}} : TRUE :
             early_avg \in {MeanTemperature(early_period)},
             late_avg \in {MeanTemperature(late_period)}} : TRUE

\* 2. Trend analysis, for more than 20 rows
TrendRecord(country, country_rows) ==
    LET split_point  == Len(country_rows) \div 3
        early_period == SubSeq(country_rows, 1, split_point)
        late_period  == SubSeq(country_rows, Len(country_rows) - split_point + 1, Len(country_rows))
    IN  CHOOSE record \in
          {CHOOSE with_change \in
             {[Country |-> country, AverageTemperature |-> late_avg,
               data_type |-> ClimateWords.trend,
               text |->
                  IF Less(AbsOf(temp_change), Num(TrendThreshold))
                  THEN ClimateWords.trend_for \o Str(country) \o ClimateWords.stable
                         \o Format2(temp_change) \o ClimateWords.between_early
                         \o Format2(early_avg) \o ClimateWords.and_late
                         \o Format2(late_avg) \o ClimateWords.close
                  ELSE ClimateWords.trend_for \o Str(country) \o ClimateWords.have
                         \o (IF Less(Num(0), temp_change)
                             THEN ClimateWords.increased
                             ELSE ClimateWords.decreased)
                         \o ClimateWords.by \o Format2(AbsOf(temp_change))
                         \o ClimateWords.over_period \o Format2(early_avg)
                         \o ClimateWords.to_later
                         \o Format2(late_avg) \o ClimateWords.occurred
                         \o FormatYear(early_period[1]["dt"]) \o ClimateWords.and
                         \o FormatYear(late_period[Len(late_period)]["dt"])
                         \o <<".">>] :
                temp_change \in {Minus(late_avg, early_avg)}} : TRUE :
             early_avg \in {MeanTemperature(early_period)},
             late_avg \in {MeanTemperature(late_period)}} : TRUE

\* 3. Recent country_rows: the rows of the last ten years
RecentRecord(country, country_rows) ==
    LET recent_cutoff == DayNumber(country_rows[Len(country_rows)]["dt"]) - RecentDays
        late(r)       == DayNumber(r["dt"]) >= recent_cutoff
    IN  CHOOSE record \in
          {[Country |-> country, AverageTemperature |-> recent_avg,
            data_type |-> ClimateWords.recent,
            text |-> ClimateWords.recent_for \o Str(country) \o ClimateWords.last_10
                       \o Format2(recent_avg) \o S_degrees
                       \o (IF Less(avg_temp, recent_avg)
                           THEN ClimateWords.this_is
                                  \o Format2(Minus(recent_avg, avg_temp))
                                  \o ClimateWords.warmer \o Format2(avg_temp)
                                  \o S_degrees
                           ELSE IF Less(recent_avg, avg_temp)
                           THEN ClimateWords.this_is
                                  \o Format2(Minus(avg_temp, recent_avg))
                                  \o ClimateWords.cooler \o Format2(avg_temp)
                                  \o S_degrees
                           ELSE <<>>)] :
             recent_avg \in {MeanTemperature(SelectSeq(country_rows, late))},
             avg_temp \in {MeanTemperature(country_rows)}} : TRUE

\* the records of one country whose rows hold dates and temperatures
CountryRecords(country, country_rows) ==
    <<SummaryRecord(country, country_rows)>>
        \o (IF Len(country_rows) > TrendMinRows
            THEN <<TrendRecord(country, country_rows)>> ELSE <<>>)
        \o <<RecentRecord(country, country_rows)>>

\* the loop over the countries, from country i on.  A country with rows
\* raises KeyError when the table has no dt or no AverageTemperature column.
\* The status is "outside" when the model does not follow the program on
\* the rows of a country
RECURSIVE CountryLoop(_, _, _, _, _)
CountryLoop(rows, columns, countries, i, records) ==
    IF i > Len(countries) THEN [status |-> "ok", dataset |-> records]
    ELSE LET country_data == CountryData(rows, countries[i])
         IN  IF Len(country_data) = 0
             THEN CountryLoop(rows, columns, countries, i + 1, records)
             ELSE IF "dt" \in columns /\ OutsideRows(country_data, columns)
             THEN [status |-> "outside", dataset |-> <<>>]
             ELSE IF "dt" \in columns /\ Len(Dated(country_data)) = 0
             THEN CountryLoop(rows, columns, countries, i + 1, records)
             ELSE IF "dt" \notin columns
                     \/ "AverageTemperature" \notin columns
             THEN [status |-> "raised", dataset |-> <<>>]
             ELSE CountryLoop(rows, columns, countries, i + 1,
                              records \o CountryRecords(countries[i],
                                                        Dated(country_data)))

\* _process_climate_csv(df); columns are the columns of the table
ProcessClimateCsv(rows, columns) ==
    CountryLoop(rows, columns, FirstCountries(rows), 1, <<>>)

\* The dataset the per-record loop runs over.
LoadRecords(file) ==
    IF file.format = "json"
    THEN IF ~file.parses THEN [status |-> "raised", dataset |-> <<>>]
         ELSE IF file.top = "list"
              THEN [status |-> "ok", dataset |-> file.data]
              ELSE [status |-> "ok", dataset |-> <<file.data>>]
    ELSE IF file.format = "jsonl"
    THEN IF ~file.parses THEN [status |-> "raised", dataset |-> <<>>]
         ELSE [status |-> "ok", dataset |-> file.data]
    ELSE IF file.format = "csv"
    THEN IF ~file.parses THEN [status |-> "raised", dataset |-> <<>>]
         ELSE LET df == DropUnnamed(file.data)
              IN  IF "Country" \in Columns(df)
                  THEN ProcessClimateCsv(DropMissingTemperature(df),
                                         Columns(df))
                  ELSE [status |-> "ok",
                        dataset |-> IF Len(df) > CsvRowLimit
                                    THEN SubSeq(df, 1, CsvRowLimit)
                                    ELSE df]
    ELSE [status |-> "raised", dataset |-> <<>>]

\* the text of one record, before the emptiness test
RecordText(file, record, text_column) ==
    IF file.format = "csv"
    THEN IF text_column \in DOMAIN record
            /\ record[text_column] # None
            /\ Str(record[text_column]) # S_nan
            /\ Strip(Str(record[text_column])) # <<>>
         THEN Ok(Strip(Str(record[text_column])))
         ELSE CreateTextFromCsvRecord(record, text_column)
    ELSE Ok(GetOr(record, text_column, <<>>))

\* if not text or text.strip() == "" or text == "nan": continue
\* "skip", "raise" (text.strip() on a value that is no str) or "keep"
TextTest(text) ==
    IF ~Truthy(text) THEN "skip"
    ELSE IF ~IsStr(text) THEN "raise"
    ELSE IF Strip(text) = <<>> \/ text = S_nan THEN "skip"
    ELSE "keep"

\* the per-record loop from record i on; a holds the arguments of the call
RECURSIVE RecordLoop(_, _, _, _, _, _)
RecordLoop(file, dataset, i, a, new_docs, new_metas) ==
    IF i > Len(dataset)
    THEN [status |-> "ok", documents |-> new_docs, metadata |-> new_metas]
    ELSE CHOOSE batch \in
           {IF t.status = "raised" \/ TextTest(t.text) = "raise"
            THEN [status |-> "raised", documents |-> new_docs,
                  metadata |-> new_metas]
            ELSE IF TextTest(t.text) = "skip"
            THEN RecordLoop(file, dataset, i + 1, a, new_docs, new_metas)
            ELSE CHOOSE longer \in
                   {IF chunked.status = "no return"
                    THEN [status |-> "no return", documents |-> new_docs,
                          metadata |-> new_metas]
                    ELSE RecordLoop(file, dataset, i + 1, a,
                                    new_docs \o chunked.chunks,
                                    new_metas \o
                                      [n \in 1..Len(chunked.chunks) |-> meta]) :
                      chunked \in {ChunkText(t.text, a.chunk_size,
                                             a.chunk_overlap)},
                      meta \in {BuildMeta(dataset[i], a.text_column,
                                          a.lesson_id_column,
                                          a.person_id_column,
                                          a.dataset_name)}} : TRUE :
              t \in {RecordText(file, dataset[i], a.text_column)}} : TRUE

\* load_from_dataset that stores each record's chunks as it goes: the
\* records before a failing one stay in the store
LoadFromDatasetPerRecord(docs, metas, ix, file, a) ==
    LET loaded == LoadRecords(file)
        batch  == RecordLoop(file, loaded.dataset, 1, a, <<>>, <<>>)
        added  == AddDocuments(docs, metas, ix, batch.documents, TRUE,
                               batch.metadata)
    IN  IF loaded.status \in {"raised", "outside"}
        THEN StoreOf(loaded.status, docs, metas, ix)
        ELSE IF batch.status = "no return"
        THEN StoreOf("no return", added.documents, added.metadata,
                     added.index)
        ELSE IF batch.status = "raised"
        THEN StoreOf("raised", added.documents, added.metadata, added.index)
        ELSE added

\* load_from_dataset(dataset_path, text_column, lesson_id_column,
\*                   person_id_column, chunk_size, chunk_overlap, dataset_name)
LoadFromDataset(docs, metas, ix, file, a) ==
    CHOOSE after \in
      {IF loaded.status \in {"raised", "outside"}
       THEN StoreOf(loaded.status, docs, metas, ix)
       ELSE CHOOSE added \in
              {IF batch.status = "raised"
               THEN StoreOf("raised", docs, metas, ix)
               ELSE IF batch.status = "no return"
               THEN StoreOf("no return", docs, metas, ix)
               ELSE AddDocuments(docs, metas, ix, batch.documents, TRUE,
                                 batch.metadata) :
                 batch \in {RecordLoop(file, loaded.dataset, 1, a,
                                       <<>>, <<>>)}} : TRUE :
         loaded \in {LoadRecords(file)}} : TRUE

----------------------------------------------------------------------------
(* save_index: the two artifacts on disk *)

Dimension == Len(Embed(<<>>))

\* no artifact at the path.  saved tells that an .index artifact that
\* faiss.read_index can read is there, and index the vectors in it; data
\* is the state of the .data
\* artifact: "absent", "truncated" (opened for writing and not written) or
\* "pickle", a pickled dict with the keys in keys and their values in
\* documents, metadata and dimension
NoDisk == [saved |-> FALSE, data |-> "absent", index |-> <<>>,
           documents |-> <<>>, metadata |-> <<>>, dimension |-> Dimension,
           keys |-> {}]

\* faiss.write_index(self.index, ...) and pickle.dump({...}) of a dict with
\* four keys
SaveIndex(docs, metas, ix) ==
    [saved |-> TRUE, data |-> "pickle", index |-> ix, documents |-> docs,
     metadata |-> metas, dimension |-> Dimension,
     keys |-> {"documents", "metadata", "dimension", "embedding_model"}]

\* save_index when faiss.write_index raises: nothing has been written when
\* the file cannot be opened (no directory, no permission); once it is
\* opened for writing the old .index artifact is gone and what is left
\* cannot be read.  The .data artifact is not reached
SaveIndexWriteFails(d, opened) ==
    IF opened THEN [d EXCEPT !.saved = FALSE, !.index = <<>>] ELSE d

\* save_index when writing the .data artifact fails: the .index artifact
\* is already written.  When open raises the .data artifact is as it was;
\* when pickle.dump raises, open(..., 'wb') has already truncated it
SaveIndexDataFails(d, ix, opened) ==
    IF opened
    THEN [d EXCEPT !.saved = TRUE, !.index = ix, !.data = "truncated",
                   !.documents = <<>>, !.metadata = <<>>, !.keys = {}]
    ELSE [d EXCEPT !.saved = TRUE, !.index = ix]

\* load_index that extends the documents and metadata of the store with the
\* saved ones instead of replacing them
LoadIndexExtends(docs, metas, ix, d, rebuilt) ==
    IF ~d.saved THEN StoreOf("raised", docs, metas, ix)
    ELSE IF d.data # "pickle" \/ "documents" \notin d.keys
    THEN StoreOf("raised", docs, metas, d.index)
    ELSE IF "metadata" \notin d.keys
    THEN StoreOf("raised", docs \o d.documents, metas, d.index)
    ELSE StoreOf(IF "dimension" \in d.keys /\ rebuilt THEN "ok" ELSE "raised",
                 docs \o d.documents, metas \o d.metadata, d.index)

\* load_index(index_path): faiss.read_index raises when there is no .index
\* artifact.  After self.index has been replaced, open raises when there is
\* no .data artifact and pickle.load when it is truncated; data[key] raises
\* for a key the dict lacks, after the keys before it have been assigned;
\* and SentenceTransformer(saved model name) may raise (rebuilt is FALSE)
\* after documents, metadata and dimension have been replaced
LoadIndex(docs, metas, ix, d, rebuilt) ==
    IF ~d.saved THEN StoreOf("raised", docs, metas, ix)
    ELSE IF d.data # "pickle" \/ "documents" \notin d.keys
    THEN StoreOf("raised", docs, metas, d.index)
    ELSE IF "metadata" \notin d.keys
    THEN StoreOf("raised", d.documents, metas, d.index)
    ELSE StoreOf(IF "dimension" \in d.keys /\ rebuilt THEN "ok" ELSE "raised",
                 d.documents, d.metadata, d.index)

----------------------------------------------------------------------------
(* The inputs of the store's operations *)

MaxDocs == 3

MaxK == 2

DefaultChunkSize == 500

DefaultChunkOverlap == 50

T_ab_ba == <<"a", "b", ".", " ", "b", "a">>

RecCountry == [text |-> T_ab_ba, Country |-> <<"F", "r">>]

RecLesson == [text |-> <<"a">>, lesson |-> <<"L", " ", "1">>, pid |-> <<"p", "2">>]

RecBlank == [text |-> <<" ", " ">>]

RecNumber == [text |-> Num(500)]

RecHeadline == [Headline |-> <<"H", "o", "t">>, Content |-> <<"b", "b">>]

FileCountryLesson ==
    [format |-> "json", parses |-> TRUE, top |-> "list",
     data |-> <<RecCountry, RecLesson>>]

FileOneObject ==
    [format |-> "json", parses |-> TRUE, top |-> "dict", data |-> RecLesson]

FileNumberText ==
    [format |-> "json", parses |-> TRUE, top |-> "list",
     data |-> <<RecLesson, RecNumber>>]

FileMalformed ==
    [format |-> "json", parses |-> FALSE, top |-> "list", data |-> <<>>]

FileBlankLines ==
    [format |-> "jsonl", parses |-> TRUE, top |-> "list",
     data |-> <<RecBlank>>]

FileHeadlines ==
    [format |-> "csv", parses |-> TRUE, top |-> "list",
     data |-> <<RecHeadline>>]

FileUnsupported ==
    [format |-> "txt", parses |-> TRUE, top |-> "list", data |-> <<>>]

Files == {FileCountryLesson, FileOneObject, FileNumberText, FileMalformed,
          FileBlankLines, FileHeadlines, FileUnsupported}

S_d == <<"d">>

\* the defaults of load_from_dataset
ArgsDefault ==
    [text_column |-> "text", lesson_id_column |-> NoColumn,
     person_id_column |-> NoColumn, chunk_size |-> DefaultChunkSize,
     chunk_overlap |-> DefaultChunkOverlap, dataset_name |-> None]

\* id columns, a dataset name and small chunks
ArgsColumns ==
    [text_column |-> "text", lesson_id_column |-> "lesson",
     person_id_column |-> "pid", chunk_size |-> 4, chunk_overlap |-> 1,
     dataset_name |-> S_d]

\* the text in the Content column, as for the headlines dataset
ArgsContent ==
    [text_column |-> "Content", lesson_id_column |-> NoColumn,
     person_id_column |-> NoColumn, chunk_size |-> DefaultChunkSize,
     chunk_overlap |-> DefaultChunkOverlap, dataset_name |-> S_d]

\* the load_from_dataset calls: a file and the other arguments
IngestCalls ==
    {[file |-> f, a |-> ArgsDefault] : f \in Files \ {FileHeadlines}}
        \cup {[file |-> f, a |-> ArgsColumns] :
                f \in {FileCountryLesson, FileOneObject, FileNumberText}}
        \cup {[file |-> FileHeadlines, a |-> ArgsContent]}

\* direct add_documents calls: documents, and metadata (absent or a list)
AddArgs ==
    { [documents |-> <<>>, has_metadata |-> FALSE, metadata |-> <<>>],
      [documents |-> <<<<"b">>>>, has_metadata |-> FALSE, metadata |-> <<>>],
      [documents |-> <<<<"b">>>>, has_metadata |-> TRUE,
       metadata |-> <<[person_id |-> <<"p", "2">>]>>],
      [documents |-> <<<<"b">>, <<"a">>>>, has_metadata |-> TRUE,
       metadata |-> <<[person_id |-> <<"p", "2">>]>>] }

Queries == {<<"a">>, <<"b", "b">>}

LessonIds == {None, <<>>, <<"c", "l", "i", "m", "a", "t", "e", "_", "f", "r">>}

PersonIds == {None, <<"p", "2">>}

DatasetNames == {None, S_d}

FilterMaps == {EmptyDict, [country |-> None], [country |-> <<"F", "r">>]}

RetrieveArgs ==
    [query : Queries, k : 0..MaxK, lesson_id : LessonIds,
     person_id : PersonIds, filter_metadata : FilterMaps,
     dataset_name : DatasetNames]

ContextArgs ==
    [query : {None, <<"a">>}, k : 0..MaxK, lesson_id : LessonIds,
     person_id : PersonIds, dataset_name : DatasetNames]

----------------------------------------------------------------------------
(* The store as a state machine: a caller makes one call at a time         *)
(* (pc = "idle"), the call runs to its end and leaves its outcome in ret   *)
(* (pc = "returned"), and the caller takes the outcome.                    *)

NoRet == [op |-> "none", status |-> "ok", args |-> <<>>, value |-> <<>>,
          idx |-> <<>>, cands |-> <<>>]

\* no call noted; later tells that another query followed the noted one
NoSeen == [op |-> "none", status |-> "ok", args |-> <<>>, value |-> <<>>,
           later |-> FALSE]

\* no startup sequence is running
NoBoot == [datasets |-> <<>>, next |-> 1, log |-> <<>>]

\* no call is running in a second thread
NoThreads ==
    [writer |-> [pc |-> "idle", documents |-> <<>>, metadata |-> <<>>],
     reader |-> [pc |-> "idle", args |-> <<>>, search_k |-> 0,
                 cands |-> <<>>, i |-> 1, hits |-> <<>>]]

\* no request is in a handler; rag_system tells that eco.rag_system is set,
\* which it is once and for all when the application starts
NoHandler ==
    [pc |-> "idle", route |-> "none", request |-> <<>>, context |-> <<>>,
     stages |-> <<>>, context_snippets |-> <<>>, raised |-> FALSE,
     response |-> 0, rag_system |-> TRUE]

ChunkerIdle ==
    /\ ck_text = <<>>
    /\ ck_size = DefaultChunkSize
    /\ ck_overlap = DefaultChunkOverlap
    /\ ck_start = 0
    /\ ck_chunks = <<>>
    /\ ck_pc = "idle"

Init ==
    /\ documents = <<>>
    /\ metadata = <<>>
    /\ index = <<>>
    /\ disk = NoDisk
    /\ pc = "idle"
    /\ ret = NoRet
    /\ seen = NoSeen
    /\ boot = NoBoot
    /\ threads = NoThreads
    /\ handler = NoHandler
    /\ ChunkerIdle

\* the store takes the outcome of an ingest call; a call whose chunking
\* loop does not end stays running and its caller never gets an outcome
Mutate(op, args, res) ==
    /\ Len(res.documents) <= MaxDocs
    /\ documents' = res.documents
    /\ metadata' = res.metadata
    /\ index' = res.index
    /\ ret' = IF res.status = "no return" THEN ret
              ELSE [op |-> op, status |-> res.status, args |-> args,
                    value |-> <<>>, idx |-> <<>>, cands |-> <<>>]
    /\ pc' = IF res.status = "no return" THEN "running" ELSE "returned"
    /\ UNCHANGED <<disk, chunker, boot, threads, handler>>

IngestStep ==
    /\ pc = "idle"
    /\ \E c \in IngestCalls :
          Mutate("load_from_dataset", c,
                 LoadFromDataset(documents, metadata, index, c.file, c.a))

AddDocsStep ==
    /\ pc = "idle"
    /\ \E a \in AddArgs :
          Mutate("add_documents", a,
                 AddDocuments(documents, metadata, index, a.documents,
                              a.has_metadata, a.metadata))

\* a query that takes the documents it returns out of the store
QueryDestructive(op, a, res) ==
    /\ a.k >= 1 \/ Len(documents) = 0
    /\ ret' = [op |-> op, status |-> res.status, args |-> a,
               value |-> res.value, idx |-> res.idx, cands |-> res.cands]
    /\ pc' = "returned"
    /\ documents' = SubSeq(documents, 1, Len(documents) - Len(res.idx))
    /\ metadata' = SubSeq(metadata, 1, Len(metadata) - Len(res.idx))
    /\ index' = SubSeq(index, 1, Len(index) - Len(res.idx))
    /\ UNCHANGED <<disk, chunker, boot, threads, handler>>

\* The effect of a retrieve or get_context_for_lesson call on the state.
\* A k below 1 reaches index.search only on a store that holds documents;
\* what faiss does with it depends on its version, and is left out.
Query(op, a, res) ==
    /\ a.k >= 1 \/ Len(documents) = 0
    /\ ret' = [op |-> op, status |-> res.status, args |-> a,
               value |-> res.value, idx |-> res.idx, cands |-> res.cands]
    /\ pc' = "returned"
    /\ UNCHANGED <<store, disk, chunker, boot, threads, handler>>

RetrieveOver(args) ==
    /\ pc = "idle"
    /\ \E a \in args :
          Query("retrieve", a, Retrieve(documents, metadata, index, a))

ContextOver(args) ==
    /\ pc = "idle"
    /\ \E a \in args :
          Query("get_context_for_lesson", a,
                GetContextForLesson(documents, metadata, index, a))

SaveStep ==
    /\ pc = "idle"
    /\ disk' = SaveIndex(documents, metadata, index)
    /\ ret' = [NoRet EXCEPT !.op = "save_index"]
    /\ pc' = "returned"
    /\ UNCHANGED <<store, chunker, boot, threads, handler>>

ReturnStep ==
    /\ pc = "returned"
    /\ pc' = "idle"
    /\ ret' = NoRet
    /\ UNCHANGED <<store, disk, chunker, boot, threads, handler>>

Ingest == IngestStep /\ UNCHANGED seen

AddDocs == AddDocsStep /\ UNCHANGED seen

RetrieveCall == RetrieveOver(RetrieveArgs) /\ UNCHANGED seen

GetContext == ContextOver(ContextArgs) /\ UNCHANGED seen

Save == SaveStep /\ UNCHANGED seen

Return == ReturnStep /\ UNCHANGED seen

Next == Ingest \/ AddDocs \/ RetrieveCall \/ GetContext \/ Save \/ Return

Spec == Init /\ [][Next]_vars

----------------------------------------------------------------------------
(* Repeated queries.  seen is a call some earlier caller made since the    *)
(* last ingest, with the result it got; a caller may note its call when it *)
(* takes the result.                                                       *)

RepeatRetrieveArgs ==
    [query : Queries, k : 1..MaxK, lesson_id : {None}, person_id : PersonIds,
     filter_metadata : {EmptyDict}, dataset_name : {None}]

RepeatContextArgs ==
    [query : {None}, k : 1..MaxK, lesson_id : {None, <<"c", "l", "i", "m", "a", "t", "e", "_", "f", "r">>},
     person_id : {None}, dataset_name : {None}]

IsQuery(r) == r.op \in {"retrieve", "get_context_for_lesson"}

RepeatIngest == (IngestStep \/ AddDocsStep) /\ seen' = NoSeen

\* another query than the noted one follows it
Follows ==
    seen' = IF seen.op # "none" /\ (seen.op # ret'.op \/ seen.args # ret'.args)
            THEN [seen EXCEPT !.later = TRUE] ELSE seen

RepeatRetrieve == RetrieveOver(RepeatRetrieveArgs) /\ Follows

RepeatContext == ContextOver(RepeatContextArgs) /\ Follows

\* the caller takes the result and does not note the call
RepeatReturn == ReturnStep /\ UNCHANGED seen

\* the caller takes the result of a query and notes the call
RepeatNote ==
    /\ ReturnStep
    /\ IsQuery(ret)
    /\ seen' = [op |-> ret.op, status |-> ret.status, args |-> ret.args,
                value |-> ret.value, later |-> FALSE]

NextRepeat ==
    RepeatIngest \/ RepeatRetrieve \/ RepeatContext \/ RepeatReturn
        \/ RepeatNote

SpecRepeat == Init /\ [][NextRepeat]_vars

----------------------------------------------------------------------------
(* _chunk_text as a state machine: one step per iteration of its loop.     *)
(* A call starts at pc "loop" with start = 0 and no chunks; it returns     *)
(* (pc "done") when the loop test start < len(text) fails.                 *)

MaxTextLen == 6

MaxChunkSize == 5

MaxOverlap == 5

\* the loop is followed for at most MaxChunks chunks
MaxChunks == 7

TextChars == {"a", " ", ".", "\n"}

Texts == UNION {[1..n -> TextChars] : n \in 0..MaxTextLen}

StoreIdle ==
    /\ documents = <<>>
    /\ metadata = <<>>
    /\ index = <<>>
    /\ disk = NoDisk
    /\ pc = "idle"
    /\ ret = NoRet
    /\ seen = NoSeen
    /\ boot = NoBoot
    /\ threads = NoThreads
    /\ handler = NoHandler

InitChunk ==
    /\ StoreIdle
    /\ ck_text \in Texts
    /\ ck_size \in 1..MaxChunkSize
    /\ ck_overlap \in 0..MaxOverlap
    /\ ck_start = 0
    /\ ck_chunks = <<>>
    /\ ck_pc = "loop"

ChunkIterate ==
    /\ ck_pc = "loop"
    /\ ck_start < Len(ck_text)
    /\ Len(ck_chunks) < MaxChunks
    /\ LET s == ChunkStep(ck_text, ck_size, ck_overlap, ck_start)
       IN  /\ ck_chunks' = Append(ck_chunks, s.chunk)
           /\ ck_start' = s.start
    /\ UNCHANGED <<store, disk, pc, ret, seen, boot, threads, handler,
                   ck_text, ck_size, ck_overlap, ck_pc>>

ChunkReturn ==
    /\ ck_pc = "loop"
    /\ ~(ck_start < Len(ck_text))
    /\ ck_pc' = "done"
    /\ UNCHANGED <<store, disk, pc, ret, seen, boot, threads, handler, ck_text, ck_size, ck_overlap,
                   ck_start, ck_chunks>>

NextChunk == ChunkIterate \/ ChunkReturn

SpecChunk == InitChunk /\ [][NextChunk]_vars

----------------------------------------------------------------------------
(* Loading datasets whose records carry the fields the metadata code looks  *)
(* at: Country, dt, Headline, the id columns, and fields with the names of  *)
(* the keys the code itself writes.                                         *)

\* the documents a store may hold in this specification
MaxLoadDocs == 2

S_country == <<"S", "t", " ", "K", ",", "'", "s">>

S_date == <<"1", "7", "5", "0">>

S_headline == <<"H", "o", "t", "-", "d", ",", " ", "a", "'", " ", "\"", "b", " ", "c">>

RecPrecedence ==
    [text |-> <<"a">>, Country |-> S_country, dt |-> S_date,
     Headline |-> S_headline]

RecDated == [text |-> <<"a">>, dt |-> S_date, Headline |-> S_headline]

RecHeadlineOnly == [text |-> <<"b">>, Headline |-> S_headline]

RecTrailingBlanks == [text |-> <<"a", " ", " ", " ", " ">>]

\* the id columns lesson and pid
RecColumns ==
    [text |-> <<"a", "b">>, Country |-> S_country,
     lesson |-> <<"L", " ", "1">>, pid |-> <<"p", "2">>]

\* fields named as the keys the code writes
RecReserved ==
    [text |-> <<"b", "a">>, Country |-> S_country,
     lesson_id |-> <<"L", "e", " ", "2">>, person_id |-> <<"q">>,
     dataset_name |-> <<"z">>]

S_France == <<"F", "r", "a", "n", "c", "e">>

S_Germany == <<"G", "e", "r", "m", "a", "n", "y">>

\* {"Country": "France", "AverageTemperature": 12.5} and
\* {"Country": "Germany", "AverageTemperature": 9.0}
CountryTemperatures ==
    <<[Country |-> S_France, AverageTemperature |-> Num(1250)],
      [Country |-> S_Germany, AverageTemperature |-> Num(900)]>>

JsonList(records) ==
    [format |-> "json", parses |-> TRUE, top |-> "list", data |-> records]

JsonObject(record) ==
    [format |-> "json", parses |-> TRUE, top |-> "dict", data |-> record]

JsonLines(records) ==
    [format |-> "jsonl", parses |-> TRUE, top |-> "list", data |-> records]

\* a csv table read by pandas, written with its index column
CsvTable(records) ==
    [format |-> "csv", parses |-> TRUE, top |-> "list",
     data |-> [i \in 1..Len(records) |->
                 Put(records[i], "Unnamed: 0", Num(100 * (i - 1)))]]

\* {"text": "a\r", "Headline": "\u00c9t\u00e9\u2028\u039f\u03a3\rA"}: capitals
\* outside A-Z, a final sigma, and whitespace other than the blank
RecAccented ==
    [text |-> <<"a", "\r">>,
     Headline |-> <<"É", "t", "é", "U+2028", "U+039F", "U+03A3", "\r", "A">>]

LoadFiles ==
    {JsonList(<<RecPrecedence>>), JsonLines(<<RecDated>>),
     JsonObject(RecHeadlineOnly), CsvTable(<<RecHeadlineOnly>>),
     JsonList(<<RecAccented>>),
     JsonLines(<<RecTrailingBlanks>>), JsonList(<<RecColumns>>),
     JsonList(<<RecReserved>>),
     JsonList(CountryTemperatures), JsonLines(CountryTemperatures),
     CsvTable(CountryTemperatures)}

\* columns named as the keys the code writes
ArgsReserved ==
    [text_column |-> "text", lesson_id_column |-> "lesson_id",
     person_id_column |-> "person_id", chunk_size |-> DefaultChunkSize,
     chunk_overlap |-> DefaultChunkOverlap, dataset_name |-> S_d]

\* the dataset name given as "default", with the id columns
ArgsDefaultName == [ArgsColumns EXCEPT !.dataset_name = S_default]

\* the dataset name given as ""
ArgsEmptyName == [ArgsDefault EXCEPT !.dataset_name = <<>>]

\* an overlap as large as the chunks
ArgsNoProgress == [ArgsColumns EXCEPT !.chunk_overlap = 4]

LoadArgs ==
    {ArgsDefault, ArgsColumns, ArgsReserved, ArgsDefaultName, ArgsEmptyName,
     ArgsNoProgress}

LoadCalls == {[file |-> f, a |-> a] : f \in LoadFiles, a \in LoadArgs}

LoadDataset ==
    /\ pc = "idle"
    /\ \E c \in LoadCalls :
          LET res == LoadFromDataset(documents, metadata, index, c.file, c.a)
          IN  /\ Len(res.documents) <= MaxLoadDocs
              /\ Mutate("load_from_dataset", c, res)
    /\ UNCHANGED seen

LoadReturn == ReturnStep /\ UNCHANGED seen

NextLoad == LoadDataset \/ LoadReturn

SpecLoad == Init /\ [][NextLoad]_vars

----------------------------------------------------------------------------
(* Saving and loading: documents are added, the store is saved (the write  *)
(* of either artifact may fail) and loaded back from the path.             *)

\* the index, which a failed save and a load can make longer than the
\* documents, is kept within the bound
PersistAdd == Len(index) < MaxDocs /\ AddDocsStep /\ UNCHANGED seen

PersistSave == SaveStep /\ UNCHANGED seen

PersistSaveFails ==
    /\ pc = "idle"
    /\ \E opened \in BOOLEAN :
          \/ disk' = SaveIndexWriteFails(disk, opened)
          \/ disk' = SaveIndexDataFails(disk, index, opened)
    /\ ret' = [NoRet EXCEPT !.op = "save_index", !.status = "raised"]
    /\ pc' = "returned"
    /\ UNCHANGED <<store, chunker, boot, threads, handler, seen>>

PersistLoad ==
    /\ pc = "idle"
    /\ \E rebuilt \in BOOLEAN :
         \E res \in {LoadIndex(documents, metadata, index, disk, rebuilt)} :
           /\ documents' = res.documents
           /\ metadata' = res.metadata
           /\ index' = res.index
           /\ ret' = [NoRet EXCEPT !.op = "load_index",
                                   !.status = res.status]
    /\ pc' = "returned"
    /\ UNCHANGED <<disk, chunker, boot, threads, handler, seen>>

PersistReturn == ReturnStep /\ UNCHANGED seen

NextPersist ==
    PersistAdd \/ PersistSave \/ PersistSaveFails \/ PersistLoad
        \/ PersistReturn

SpecPersist == Init /\ [][NextPersist]_vars

----------------------------------------------------------------------------
(* The round trip: saves that succeed, loads into the same store or into a *)
(* newly constructed one, and queries.  seen notes the last save: the      *)
(* store it saved (args), what the queries returned on that store (value), *)
(* and whether the store has been loaded from the artifacts since and not  *)
(* changed after that (later).                                             *)

RoundTripQueries ==
    [query : Queries, k : 1..MaxK, lesson_id : {None}, person_id : PersonIds,
     filter_metadata : {EmptyDict}, dataset_name : {None}]

RoundTripAdd == AddDocsStep /\ seen' = [seen EXCEPT !.later = FALSE]

RoundTripSave ==
    /\ SaveStep
    /\ seen' = [op |-> "save_index", status |-> "ok",
                args |-> [documents |-> documents, metadata |-> metadata,
                          index |-> index],
                value |-> [a \in RoundTripQueries |->
                             Retrieve(documents, metadata, index, a).value],
                later |-> FALSE]

\* a new RAGSystem() in place of the old one; the artifacts stay
RoundTripConstruct ==
    /\ pc = "idle"
    /\ Len(documents) > 0
    /\ documents' = <<>>
    /\ metadata' = <<>>
    /\ index' = <<>>
    /\ seen' = [seen EXCEPT !.later = FALSE]
    /\ UNCHANGED <<disk, pc, ret, chunker, boot, threads, handler>>

RoundTripLoad ==
    /\ pc = "idle"
    /\ \E rebuilt \in BOOLEAN :
         \E res \in {LoadIndex(documents, metadata, index, disk, rebuilt)} :
           /\ documents' = res.documents
           /\ metadata' = res.metadata
           /\ index' = res.index
           /\ ret' = [NoRet EXCEPT !.op = "load_index",
                                   !.status = res.status]
           /\ seen' = [seen EXCEPT !.later = (res.status = "ok")]
    /\ pc' = "returned"
    /\ UNCHANGED <<disk, chunker, boot, threads, handler>>

RoundTripRetrieve == RetrieveOver(RoundTripQueries) /\ UNCHANGED seen

RoundTripReturn == ReturnStep /\ UNCHANGED seen

NextRoundTrip ==
    RoundTripAdd \/ RoundTripSave \/ RoundTripConstruct \/ RoundTripLoad
        \/ RoundTripRetrieve \/ RoundTripReturn

SpecRoundTrip == Init /\ [][NextRoundTrip]_vars

----------------------------------------------------------------------------
(* Two threads on one store: a writer inside add_documents and a reader    *)
(* inside retrieve.  The code takes no lock, so the statements of the two  *)
(* calls interleave; each action is one statement of one of the calls.     *)

\* the batches the writer adds: documents with their metadata
WriterBatches ==
    {a \in AddArgs : a.has_metadata /\ Len(a.documents) = Len(a.metadata)}

ReaderArgs ==
    [query : Queries, k : 1..MaxK, lesson_id : {None}, person_id : PersonIds,
     filter_metadata : {EmptyDict}, dataset_name : {None}]

\* add_documents up to np.array(embeddings): the lengths are compared and
\* the batch is embedded
WriterCall ==
    /\ threads.writer.pc = "idle"
    /\ \E a \in WriterBatches :
          /\ Len(documents) + Len(a.documents) <= MaxDocs
          /\ threads' = [threads EXCEPT
                           !.writer = [pc |-> "embedded",
                                       documents |-> a.documents,
                                       metadata |-> a.metadata]]
    /\ UNCHANGED <<store, disk, pc, ret, seen, chunker, boot, handler>>

\* self.index.add(embeddings_array)
WriterIndexAdd ==
    /\ threads.writer.pc = "embedded"
    /\ index' = IndexAdd(index, EmbedAll(threads.writer.documents))
    /\ threads' = [threads EXCEPT !.writer.pc = "indexed"]
    /\ UNCHANGED <<documents, metadata, disk, pc, ret, seen, chunker, boot, handler>>

\* self.documents.extend(documents)
WriterExtendDocuments ==
    /\ threads.writer.pc = "indexed"
    /\ documents' = documents \o threads.writer.documents
    /\ threads' = [threads EXCEPT !.writer.pc = "extended"]
    /\ UNCHANGED <<metadata, index, disk, pc, ret, seen, chunker, boot, handler>>

\* self.metadata.extend(metadata), and the call returns
WriterExtendMetadata ==
    /\ threads.writer.pc = "extended"
    /\ metadata' = metadata \o threads.writer.metadata
    /\ threads' = [threads EXCEPT !.writer = NoThreads.writer]
    /\ UNCHANGED <<documents, index, disk, pc, ret, seen, chunker, boot, handler>>

\* what the reader's call returns
ReaderOutcome(status, a, cands, hits) ==
    [op |-> "retrieve", status |-> status, args |-> a, value |-> <<>>,
     idx |-> hits, cands |-> cands]

\* retrieve up to its first statement: if len(self.documents) == 0:
\* return []
ReaderCall ==
    /\ threads.reader.pc = "idle"
    /\ pc = "idle"
    /\ \E a \in ReaderArgs :
          IF Len(documents) = 0
          THEN /\ ret' = ReaderOutcome("ok", a, <<>>, <<>>)
               /\ pc' = "returned"
               /\ UNCHANGED threads
          ELSE /\ threads' = [threads EXCEPT
                                !.reader = [NoThreads.reader EXCEPT
                                              !.pc = "embed", !.args = a]]
               /\ UNCHANGED <<pc, ret>>
    /\ UNCHANGED <<store, disk, seen, chunker, boot, handler>>

\* the query is embedded, and search_k = min(search_k,
\* len(self.documents)) reads the length of documents a second time
ReaderEmbed ==
    /\ threads.reader.pc = "embed"
    /\ threads' = [threads EXCEPT
                     !.reader.pc = "search",
                     !.reader.search_k =
                        SearchK(documents, threads.reader.args.k,
                                threads.reader.args.lesson_id,
                                threads.reader.args.person_id,
                                threads.reader.args.dataset_name)]
    /\ UNCHANGED <<store, disk, pc, ret, seen, chunker, boot, handler>>

\* distances, indices = self.index.search(query_embedding, search_k)
ReaderSearch ==
    /\ threads.reader.pc = "search"
    /\ threads' = [threads EXCEPT
                     !.reader.pc = "walk",
                     !.reader.cands = Search(index,
                                             Embed(threads.reader.args.query),
                                             threads.reader.search_k)]
    /\ UNCHANGED <<store, disk, pc, ret, seen, chunker, boot, handler>>

\* one pass of the loop over the candidates: self.documents[idx] or
\* self.metadata[idx] raises IndexError for a position beyond the list
ReaderWalk ==
    /\ threads.reader.pc = "walk"
    /\ LET r == threads.reader
           a == r.args
       IN  IF r.i > Len(r.cands)
           THEN /\ ret' = ReaderOutcome("ok", a, r.cands, r.hits)
                /\ pc' = "returned"
                /\ threads' = [threads EXCEPT !.reader = NoThreads.reader]
           ELSE IF Beyond(documents, r.cands[r.i])
                      \/ Beyond(metadata, r.cands[r.i])
           THEN /\ ret' = ReaderOutcome("raised", a, r.cands, r.hits)
                /\ pc' = "returned"
                /\ threads' = [threads EXCEPT !.reader = NoThreads.reader]
           ELSE IF ~Passes(At(metadata, r.cands[r.i]), a.lesson_id,
                           a.person_id, a.filter_metadata, a.dataset_name)
           THEN /\ threads' = [threads EXCEPT !.reader.i = r.i + 1]
                /\ UNCHANGED <<pc, ret>>
           ELSE IF Len(r.hits) + 1 >= a.k
           THEN /\ ret' = ReaderOutcome("ok", a, r.cands,
                                        Append(r.hits, r.cands[r.i]))
                /\ pc' = "returned"
                /\ threads' = [threads EXCEPT !.reader = NoThreads.reader]
           ELSE /\ threads' = [threads EXCEPT
                                 !.reader.i = r.i + 1,
                                 !.reader.hits = Append(r.hits, r.cands[r.i])]
                /\ UNCHANGED <<pc, ret>>
    /\ UNCHANGED <<store, disk, seen, chunker, boot, handler>>

\* the reader's caller takes the outcome
ReaderReturn ==
    /\ pc = "returned"
    /\ pc' = "idle"
    /\ ret' = NoRet
    /\ UNCHANGED <<store, disk, seen, chunker, boot, threads, handler>>

NextConcurrent ==
    WriterCall \/ WriterIndexAdd \/ WriterExtendDocuments
        \/ WriterExtendMetadata \/ ReaderCall \/ ReaderEmbed \/ ReaderSearch
        \/ ReaderWalk \/ ReaderReturn

SpecConcurrent == Init /\ [][NextConcurrent]_vars

----------------------------------------------------------------------------
(* _process_climate_csv on per-country temperature tables.  The rows of a  *)
(* country are two years apart, so that its last ten years lie in its last *)
(* third once it has a third of five rows; its temperatures are early in   *)
(* the first third, late in the last third and their mean in between, so   *)
(* that every mean is a whole number of hundredths.                        *)

\* how many dated rows a country has at most
MaxSeriesRows == 24

\* how many countries a table has at most
MaxCountries == 51

\* the first year of a series and the temperature of its early rows, in
\* hundredths of a degree
SeriesStart == [year |-> 1900, hundredths |-> 1000]

\* the late temperatures: the early one, and 0.48, 0.50, 0.52 and 1.00
\* degrees above and below it
LateTemperatures == {1000, 1048, 1050, 1052, 1100, 952, 950, 948, 900}

S_jan_1 == <<"-", "0", "1", "-", "0", "1">>

\* a cell that is no date
S_no_date == <<"x">>

ClimateRow(country, dt, h) ==
    [Country |-> country, dt |-> dt, AverageTemperature |-> Num(h)]

\* the temperature of the t-th of n rows in time order: early in the
\* first third, late in the last, halfway in between
SeriesTemperature(n, t, early, late) ==
    IF t <= n \div 3 THEN early
    ELSE IF t > n - n \div 3 THEN late
    ELSE (early + late) \div 2

\* n rows of one country from early to late, the latest first
SeriesBetween(country, n, early, late) ==
    [j \in 1..n |->
        ClimateRow(country,
                   Digits(SeriesStart.year + 2 * (n - j)) \o S_jan_1,
                   SeriesTemperature(n, n - j + 1, early, late))]

\* n rows of one country, the latest first
Series(country, n, late) ==
    SeriesBetween(country, n, SeriesStart.hundredths, late)

\* early and late temperatures half a degree apart as written, whose means
\* over seven rows are doubles less than half a degree apart
CloseMeans == {<<1024, 1074>>, <<918, 868>>}

\* a country of rows without a date
Undated(country, n) ==
    [j \in 1..n |-> ClimateRow(country, S_no_date, SeriesStart.hundredths)]

\* k countries of one row each
CountryName(i) == <<"C">> \o Digits(i)

OneRowEach(k) ==
    [i \in 1..k |->
        ClimateRow(CountryName(i), Digits(SeriesStart.year + i) \o S_jan_1,
                   SeriesStart.hundredths + i)]

ClimateTables ==
    {Series(S_France, n, late) \o Undated(S_France, u)
        \o Undated(S_Germany, u) :
        n \in 1..MaxSeriesRows, late \in LateTemperatures, u \in 0..1}
      \cup {OneRowEach(k) : k \in 1..MaxCountries}
      \cup {Undated(S_Germany, 1) \o OneRowEach(k) :
               k \in (MaxCountries - 2)..MaxCountries}
      \cup {Series(S_France, n, SeriesStart.hundredths) \o OneRowEach(k) :
               n \in {TrendMinRows, TrendMinRows + 1},
               k \in (MaxCountries - 2)..MaxCountries}
      \cup {SeriesBetween(S_France, TrendMinRows + 1, pair[1], pair[2]) :
               pair \in CloseMeans}

ClimateProcess ==
    /\ pc = "idle"
    /\ \E table \in ClimateTables :
          \E res \in {ProcessClimateCsv(table, Columns(table))} :
             ret' = [op |-> "_process_climate_csv", status |-> res.status,
                     args |-> table, value |-> res.dataset, idx |-> <<>>,
                     cands |-> <<>>]
    /\ pc' = "returned"
    /\ UNCHANGED <<store, disk, seen, chunker, boot, threads, handler>>

ClimateReturn == ReturnStep /\ UNCHANGED seen

NextClimate == ClimateProcess \/ ClimateReturn

SpecClimate == Init /\ [][NextClimate]_vars

----------------------------------------------------------------------------
(* Startup (EcoChatbot._load_climate_datasets): the configured datasets    *)
(* are loaded one after the other into the new store, each inside its own  *)
(* try / except.  boot.datasets is the list, boot.next the dataset the loop *)
(* is at, boot.log what happened to the datasets before it.                *)

\* the list datasets of _load_climate_datasets: the name of each
\* configuration, as a str, and its text_column; none names an id column
BootConfigs ==
    <<[file |-> "GlobalLandTemperaturesByCountry.csv",
       name |-> <<"t", "e", "m", "p", "e", "r", "a", "t", "u", "r", "e", "_", "b", "y", "_",
                "c", "o", "u", "n", "t", "r", "y">>,
       text_column |-> "text"],
      [file |-> "GlobalLandTemperaturesByCity.csv",
       name |-> <<"t", "e", "m", "p", "e", "r", "a", "t", "u", "r", "e", "_", "b", "y", "_",
                "c", "i", "t", "y">>,
       text_column |-> "text"],
      [file |-> "GlobalTemperatures.csv",
       name |-> <<"g", "l", "o", "b", "a", "l", "_", "t", "e", "m", "p", "e", "r", "a", "t",
                "u", "r", "e", "s">>,
       text_column |-> "text"],
      [file |-> "climate_headlines_sentiment.csv",
       name |-> <<"c", "l", "i", "m", "a", "t", "e", "_", "h", "e", "a", "d", "l", "i", "n",
                "e", "s">>,
       text_column |-> "Content"]>>

\* the arguments of the load_from_dataset call made for a configuration:
\* the chunk sizes are the defaults
ConfigArgs(config) ==
    [ArgsDefault EXCEPT !.text_column = config.text_column,
                        !.dataset_name = config.name]

\* what the dataset directory can hold under a file name: nothing
\* (exists is FALSE), or a csv file that pandas cannot read, a table of
\* dated country temperatures, one of country temperatures without dates,
\* one with a text column and one of headlines
BootFiles ==
    {[exists |-> FALSE, file |-> FileHeadlines],
     [exists |-> TRUE,
      file |-> [format |-> "csv", parses |-> FALSE, top |-> "list",
                data |-> <<>>]],
     [exists |-> TRUE, file |-> CsvTable(OneRowEach(1))],
     [exists |-> TRUE, file |-> CsvTable(CountryTemperatures)],
     [exists |-> TRUE, file |-> CsvTable(<<RecHeadlineOnly>>)],
     [exists |-> TRUE, file |-> FileHeadlines]}

\* the datasets the loop goes through: none when there is no store or no
\* dataset directory, else the four configurations with what the
\* directory holds for each
BootLists ==
    {<<>>} \cup
    {[i \in DOMAIN BootConfigs |->
         [exists |-> on_disk[i].exists, file |-> on_disk[i].file,
          a |-> ConfigArgs(BootConfigs[i])]] :
       on_disk \in [DOMAIN BootConfigs -> BootFiles]}

InitStartup ==
    /\ documents = <<>>
    /\ metadata = <<>>
    /\ index = <<>>
    /\ disk = NoDisk
    /\ pc = "idle"
    /\ ret = NoRet
    /\ seen = NoSeen
    /\ ChunkerIdle
    /\ boot \in {[datasets |-> ds, next |-> 1, log |-> <<>>] : ds \in BootLists}
    /\ threads = NoThreads
    /\ handler = NoHandler

StartupRunning == boot.next <= Len(boot.datasets)

\* the outcome of one pass of the loop: the store after it and the log entry
StartupPass(docs, metas, ix, config) ==
    IF ~config.exists
    THEN [documents |-> docs, metadata |-> metas, index |-> ix,
          entry |-> "not found"]
    ELSE CHOOSE out \in
           {[documents |-> res.documents, metadata |-> res.metadata,
             index |-> res.index,
             entry |-> IF res.status = "ok" THEN "loaded"
                       ELSE IF res.status \in {"no return", "outside"}
                       THEN res.status
                       ELSE "failed"] :
              res \in {LoadFromDataset(docs, metas, ix, config.file,
                                       config.a)}} : TRUE

\* a loop without the try / except: the first failure ends the startup
\* sequence
StartupLoadNoExcept ==
    /\ pc = "idle"
    /\ StartupRunning
    /\ \E out \in {StartupPass(documents, metadata, index,
                             boot.datasets[boot.next])} :
           /\ out.entry # "no return"
           /\ documents' = out.documents
           /\ metadata' = out.metadata
           /\ index' = out.index
           /\ boot' = [boot EXCEPT
                         !.next = IF out.entry = "failed"
                                  THEN Len(boot.datasets) + 1
                                  ELSE boot.next + 1,
                         !.log = Append(boot.log, out.entry)]
    /\ UNCHANGED <<disk, pc, ret, seen, chunker, threads, handler>>

\* one pass of the loop over the datasets
StartupLoad ==
    /\ pc = "idle"
    /\ StartupRunning
    /\ \E out \in {StartupPass(documents, metadata, index,
                             boot.datasets[boot.next])} :
           /\ out.entry # "no return"
           /\ documents' = out.documents
           /\ metadata' = out.metadata
           /\ index' = out.index
           /\ boot' = [boot EXCEPT !.next = boot.next + 1,
                                   !.log = Append(boot.log, out.entry)]
    /\ UNCHANGED <<disk, pc, ret, seen, chunker, threads, handler>>

\* the k of _get_rag_context, which no caller sets
ContextK == 3

\* _get_rag_context(user_input): retrieve(query=user_input, k=k,
\* dataset_name=None)
StartupQueryArgs ==
    [query : {<<"b", "b">>}, k : {ContextK}, lesson_id : {None},
     person_id : {None}, filter_metadata : {EmptyDict},
     dataset_name : {None}]

\* after startup the chat handlers query the store
StartupRetrieve ==
    /\ ~StartupRunning
    /\ RetrieveOver(StartupQueryArgs)
    /\ UNCHANGED seen

StartupReturn == ReturnStep /\ UNCHANGED seen

NextStartup == StartupLoad \/ StartupRetrieve \/ StartupReturn

SpecStartup == InitStartup /\ [][NextStartup]_vars

----------------------------------------------------------------------------
(* The quiz and learning-material handlers of app.py: the request is      *)
(* validated, context is looked up in up to three stages, snippets are     *)
(* fetched for the response, and the material is generated.  handler.pc    *)
(* is the handler's position; handler.stages notes each lookup made, with  *)
(* the arguments retrieve received and the context the lookup gave.        *)

\* the fixed parts of the handlers' queries
HandlerWords ==
    [questions_about |->
        <<"G", "e", "n", "e", "r", "a", "t", "e", " ", "q", "u", "e", "s", "t", "i", "o", "n", "s", " ", "a", "b", "o", "u", "t", " ">>,
     material_about |->
        <<"G", "e", "n", "e", "r", "a", "t", "e", " ", "l", "e", "a", "r", "n", "i", "n", "g", " ", "m", "a", "t", "e", "r", "i", "a", "l", " ", "a", "b", "o", "u", "t", " ">>,
     for |->
        <<" ", "f", "o", "r", " ">>,
     climate_change_temperature |->
        <<"c", "l", "i", "m", "a", "t", "e", " ", "c", "h", "a", "n", "g", "e", " ", "t", "e", "m", "p", "e", "r", "a", "t", "u", "r", "e">>,
     climate_change |->
        <<"c", "l", "i", "m", "a", "t", "e", " ", "c", "h", "a", "n", "g", "e">>]

S_fr == <<"f", "r">>

S_p2 == <<"p", "2">>

\* the documents the requests are served from
HandlerDocs ==
    { [document |-> <<"a", "b">>,
       meta |-> [lesson_id |-> S_fr, person_id |-> S_p2,
                 dataset_name |-> S_d]],
      [document |-> <<"b">>,
       meta |-> [lesson_id |-> S_fr, person_id |-> S_student_1,
                 dataset_name |-> <<"e">>]],
      [document |-> <<"a">>,
       meta |-> [lesson_id |-> <<"x">>, person_id |-> S_student_1,
                 dataset_name |-> S_d]] }

\* the requests: the parameters read from the JSON body or the query string,
\* and whether the language-model client is configured
HandlerRequests ==
    [route : {"generate_questions", "generate_learning_material"},
     lesson_id : {None, <<>>, S_fr}, person_id : {<<>>, S_p2, S_student_1},
     dataset_name : {None, S_d}, context_k : 1..MaxK, use_rag : BOOLEAN,
     client : BOOLEAN]

\* if lesson_id is None: lesson_id = ""
NormalLesson(lesson_id) == IF lesson_id = None THEN <<>> ELSE lesson_id

\* the words a handler's queries start with
QueryStart(route) ==
    IF route = "generate_questions" THEN HandlerWords.questions_about
    ELSE HandlerWords.material_about

\* the first lookup: get_context_for_lesson with the lesson and the person
FirstCall(r) ==
    [query |-> QueryStart(r.route) \o StrOf(r.lesson_id) \o HandlerWords.for
                  \o StrOf(r.person_id),
     k |-> r.context_k, lesson_id |-> r.lesson_id,
     person_id |-> r.person_id, dataset_name |-> r.dataset_name]

\* the second lookup: get_context_for_lesson with person_id=None
SecondCall(r) ==
    [query |-> QueryStart(r.route) \o StrOf(r.lesson_id),
     k |-> r.context_k, lesson_id |-> r.lesson_id, person_id |-> None,
     dataset_name |-> r.dataset_name]

\* a third lookup that searches every dataset
FallbackCallAllDatasets(r) ==
    [query |-> IF Truthy(r.lesson_id) THEN r.lesson_id
               ELSE HandlerWords.climate_change_temperature,
     k |-> r.context_k, lesson_id |-> None, person_id |-> None,
     filter_metadata |-> EmptyDict, dataset_name |-> None]

\* the third lookup: retrieve(query, k, dataset_name)
FallbackCall(r) ==
    [query |-> IF Truthy(r.lesson_id) THEN r.lesson_id
               ELSE HandlerWords.climate_change_temperature,
     k |-> r.context_k, lesson_id |-> None, person_id |-> None,
     filter_metadata |-> EmptyDict, dataset_name |-> r.dataset_name]

\* the first retrieve for the snippets of the response
SnippetCall(r) ==
    [query |-> IF Truthy(r.lesson_id) THEN r.lesson_id
               ELSE HandlerWords.climate_change,
     k |-> Min(r.context_k, 5),
     lesson_id |-> IF Truthy(r.lesson_id) THEN r.lesson_id ELSE None,
     person_id |-> None, filter_metadata |-> EmptyDict,
     dataset_name |-> r.dataset_name]

\* [doc for doc, _, _ in results]
DocsOf(results) == [n \in 1..Len(results) |-> results[n][1]]

\* the snippets kept for the response: a retrieve with the lesson, and one
\* without it when the first finds nothing; status tells whether a retrieve
\* raised
ContextSnippets(docs, metas, ix, r) ==
    LET first  == Retrieve(docs, metas, ix, SnippetCall(r))
        second == Retrieve(docs, metas, ix,
                           [SnippetCall(r) EXCEPT !.lesson_id = None])
    IN  IF first.status = "raised" \/ Len(first.value) > 0
        THEN [status |-> first.status, value |-> DocsOf(first.value)]
        ELSE [status |-> second.status, value |-> DocsOf(second.value)]

\* the handler after a lookup that did not raise: on to the snippets with
\* a context, else on to the next lookup
AfterLookup(args, status, context, next) ==
    /\ status = "ok"
    /\ handler' = [handler EXCEPT
                      !.context = context,
                      !.stages = Append(@, [args |-> args,
                                            context |-> context]),
                      !.pc = IF Truthy(context) THEN "snippets" ELSE next]

\* EcoChatbot.__init__: eco.rag_system is the retrieval system, or None
\* when it is not available or its initialisation failed
InitHandler ==
    /\ documents = <<>>
    /\ metadata = <<>>
    /\ index = <<>>
    /\ disk = NoDisk
    /\ pc = "idle"
    /\ ret = NoRet
    /\ seen = NoSeen
    /\ boot = NoBoot
    /\ threads = NoThreads
    /\ handler \in {[NoHandler EXCEPT !.rag_system = set] : set \in BOOLEAN}
    /\ ChunkerIdle

\* a document is added to the retrieval system, when there is one, while no
\* request is in a handler
HandlerAdd ==
    /\ handler.pc = "idle"
    /\ handler.rag_system
    /\ pc = "idle"
    /\ Len(documents) < MaxDocs
    /\ \E d \in HandlerDocs :
          \E res \in {AddDocuments(documents, metadata, index,
                                   <<d.document>>, TRUE, <<d.meta>>)} :
             /\ documents' = res.documents
             /\ metadata' = res.metadata
             /\ index' = res.index
    /\ UNCHANGED <<disk, pc, ret, seen, chunker, boot, threads, handler>>

\* the handler reads and validates the parameters: 400 without a
\* person_id, 500 without a client, else on to the lookups under
\* "if use_rag and eco.rag_system", and to the generation otherwise
HandlerReceive ==
    /\ handler.pc = "idle"
    /\ \E r \in HandlerRequests :
          handler' =
             [handler EXCEPT
                 !.route = r.route,
                 !.request = [r EXCEPT !.lesson_id = NormalLesson(@)],
                 !.pc = IF r.person_id = <<>> \/ ~r.client THEN "done"
                        ELSE IF r.use_rag /\ handler.rag_system THEN "stage1"
                        ELSE "generate",
                 !.response = IF r.person_id = <<>> THEN 400
                              ELSE IF ~r.client THEN 500 ELSE 0]
    /\ UNCHANGED <<store, disk, pc, ret, seen, chunker, boot, threads>>

HandlerStage1 ==
    /\ handler.pc = "stage1"
    /\ \E a \in {FirstCall(handler.request)} :
         \E res \in {GetContextForLesson(documents, metadata, index, a)} :
            AfterLookup(ContextCall(a), res.status, res.value, "stage2")
    /\ UNCHANGED <<store, disk, pc, ret, seen, chunker, boot, threads>>

HandlerStage2 ==
    /\ handler.pc = "stage2"
    /\ \E a \in {SecondCall(handler.request)} :
         \E res \in {GetContextForLesson(documents, metadata, index, a)} :
            AfterLookup(ContextCall(a), res.status, res.value, "stage3")
    /\ UNCHANGED <<store, disk, pc, ret, seen, chunker, boot, threads>>

HandlerStage3 ==
    /\ handler.pc = "stage3"
    /\ \E a \in {FallbackCall(handler.request)} :
         \E res \in {Retrieve(documents, metadata, index, a)} :
            AfterLookup(a, res.status, JoinBlank(DocsOf(res.value)),
                        "generate")
    /\ UNCHANGED <<store, disk, pc, ret, seen, chunker, boot, threads>>

HandlerSnippets ==
    /\ handler.pc = "snippets"
    /\ \E res \in {ContextSnippets(documents, metadata, index,
                                    handler.request)} :
          /\ res.status = "ok"
          /\ handler' = [handler EXCEPT !.context_snippets = res.value,
                                        !.pc = "generate"]
    /\ UNCHANGED <<store, disk, pc, ret, seen, chunker, boot, threads>>

\* a retrieval call raises (the embedding model or the index fails, or the
\* loop of retrieve reads a position its lists do not have): the except
\* clause empties the context and the handler goes on
HandlerRaise ==
    /\ handler.pc \in {"stage1", "stage2", "stage3", "snippets"}
    /\ handler' = [handler EXCEPT !.context = <<>>, !.raised = TRUE,
                                  !.pc = "generate"]
    /\ UNCHANGED <<store, disk, pc, ret, seen, chunker, boot, threads>>

\* the prompt is built with or without the context and the language model
\* is called: 503 when the call raises, 500 when anything else in the
\* handler does, else the reply is sent
HandlerGenerate ==
    /\ handler.pc = "generate"
    /\ \E code \in {200, 500, 503} :
          handler' = [handler EXCEPT !.response = code, !.pc = "done"]
    /\ UNCHANGED <<store, disk, pc, ret, seen, chunker, boot, threads>>

HandlerReturn ==
    /\ handler.pc = "done"
    /\ handler' = [NoHandler EXCEPT !.rag_system = handler.rag_system]
    /\ UNCHANGED <<store, disk, pc, ret, seen, chunker, boot, threads>>

NextHandler ==
    \/ HandlerAdd
    \/ HandlerReceive
    \/ HandlerStage1
    \/ HandlerStage2
    \/ HandlerStage3
    \/ HandlerSnippets
    \/ HandlerRaise
    \/ HandlerGenerate
    \/ HandlerReturn

SpecHandler == InitHandler /\ [][NextHandler]_vars

----------------------------------------------------------------------------
(* Properties *)

IsIngest(r) == r.op \in {"load_from_dataset", "add_documents"}

IsPrefix(s, t) == Len(s) <= Len(t) /\ SubSeq(t, 1, Len(s)) = s

\* the documents a load_from_dataset call builds when it runs on an empty store
BatchOf(r) ==
    LoadFromDataset(<<>>, <<>>, <<>>, r.args.file, r.args.a).documents

\* C1: after any sequence of ingest calls (load_from_dataset, add_documents),
\* each succeeding or raising, the number of documents, the number of
\* metadata records and the number of vectors in the index are equal.
C1_ParallelLengths ==
    /\ Len(documents) = Len(metadata)
    /\ Len(metadata) = Len(index)

\* an ingest call has raised on a store that already holds documents
C1_Witness ==
    /\ pc = "returned"
    /\ IsIngest(ret)
    /\ ret.status = "raised"
    /\ ret.op = "add_documents"
    /\ Len(ret.args.documents) # Len(ret.args.metadata)
    /\ Len(documents) > 0

\* The (record, chunk) pairs of a load_from_dataset call, by position in the
\* dataset and in the record's chunks.
KeptText(file, a, r) ==
    RecordText(file, LoadRecords(file).dataset[r], a.text_column).text

KeptRecords(file, a) ==
    {r \in 1..Len(LoadRecords(file).dataset) :
        TextTest(KeptText(file, a, r)) = "keep"}

ChunksOf(file, a, r) ==
    ChunkText(KeptText(file, a, r), a.chunk_size, a.chunk_overlap).chunks

ChunkPairs(file, a) ==
    UNION {{<<r, c>> : c \in 1..Len(ChunksOf(file, a, r))} :
             r \in KeptRecords(file, a)}

\* the place of a pair in the batch: records in dataset order, the chunks of
\* one record in chunk order
PlaceOf(file, a, p) ==
    1 + Cardinality({q \in ChunkPairs(file, a) :
                        q[1] < p[1] \/ (q[1] = p[1] /\ q[2] < p[2])})

VectorsAligned ==
    \A i \in 1..Len(documents) :
        i <= Len(index) /\ index[i] = Embed(documents[i])

LoadInOrder ==
    (ret'.op = "load_from_dataset" /\ ret'.status = "ok" /\ pc = "idle") =>
        LET file == ret'.args.file
            a    == ret'.args.a
            base == Len(documents)
        IN  /\ Len(documents') = base + Cardinality(ChunkPairs(file, a))
            /\ Len(metadata') = Len(documents')
            /\ \A p \in ChunkPairs(file, a) :
                 /\ documents'[base + PlaceOf(file, a, p)]
                      = ChunksOf(file, a, p[1])[p[2]]
                 /\ metadata'[base + PlaceOf(file, a, p)]
                      = BuildMeta(LoadRecords(file).dataset[p[1]],
                                  a.text_column, a.lesson_id_column,
                                  a.person_id_column, a.dataset_name)

AddInOrder ==
    (ret'.op = "add_documents" /\ ret'.status = "ok" /\ pc = "idle") =>
        LET a    == ret'.args
            base == Len(documents)
        IN  /\ Len(documents') = base + Len(a.documents)
            /\ Len(metadata') = Len(documents')
            /\ \A n \in 1..Len(a.documents) :
                 /\ documents'[base + n] = a.documents[n]
                 /\ metadata'[base + n]
                      = IF a.has_metadata THEN a.metadata[n] ELSE EmptyDict

\* C2: after any sequence of ingest calls the vector at every position i is
\* the embedding of documents[i], and every successful ingest appends its
\* chunks and the metadata built from each chunk's own record at the same
\* positions, records in dataset order and the chunks of a record in chunk
\* order.
C2_LockStep == [](VectorsAligned) /\ [][LoadInOrder /\ AddInOrder]_vars

\* a file of two records, the first cut into two chunks, has been ingested
C2_Witness ==
    /\ pc = "returned"
    /\ ret.op = "load_from_dataset"
    /\ ret.status = "ok"
    /\ Len(BatchOf(ret)) = 3
    /\ Len(documents) = 3
    /\ documents[1] # documents[2]
    /\ metadata[1] = metadata[2]
    /\ metadata[2] # metadata[3]

\* C3: across ingest, retrieve, get_context_for_lesson and save_index calls
\* the documents and metadata present before a step are a prefix of those
\* after it (same positions, same content), so nothing is removed or changed.
C3_MonotonicGrowth ==
    [][IsPrefix(documents, documents') /\ IsPrefix(metadata, metadata')]_vars

\* a load_from_dataset call has succeeded on a store that held documents
C3_Witness ==
    /\ pc = "returned"
    /\ ret.op = "load_from_dataset"
    /\ ret.status = "ok"
    /\ Len(documents) > Len(BatchOf(ret))
    /\ disk.saved

\* the arguments of a call that are filters in force: not None, not empty
InForce(v) == Truthy(v)

HasValue(meta, key, v) == key \in DOMAIN meta /\ Eq(meta[key], v)

ArgsMatch(meta, a) ==
    /\ InForce(a.dataset_name) => HasValue(meta, "dataset_name", a.dataset_name)
    /\ InForce(a.lesson_id) => HasValue(meta, "lesson_id", a.lesson_id)
    /\ InForce(a.person_id) => HasValue(meta, "person_id", a.person_id)

\* C4 as stated: every result of retrieve has the requested dataset_name,
\* lesson_id and person_id, and has every key of the extra filter mapping
\* with exactly the requested value; a document lacking a filtered key is
\* never returned.
C4_FiltersExact ==
    (pc = "returned" /\ ret.op = "retrieve") =>
        \A n \in 1..Len(ret.value) :
            /\ ArgsMatch(ret.value[n][2], ret.args)
            /\ \A key \in DOMAIN ret.args.filter_metadata :
                 HasValue(ret.value[n][2], key, ret.args.filter_metadata[key])

\* C4 amended: every result of retrieve has the requested dataset_name,
\* lesson_id and person_id for each of these arguments that is not empty,
\* and for every key of the extra filter mapping meta.get(key) equals the
\* requested value: the key is there with that value, or it is missing and
\* the requested value is None.
C4_FiltersExactAmended ==
    (pc = "returned" /\ ret.op = "retrieve") =>
        \A n \in 1..Len(ret.value) :
            /\ ArgsMatch(ret.value[n][2], ret.args)
            /\ \A key \in DOMAIN ret.args.filter_metadata :
                 \/ HasValue(ret.value[n][2], key,
                             ret.args.filter_metadata[key])
                 \/ /\ key \notin DOMAIN ret.value[n][2]
                    /\ ret.args.filter_metadata[key] = None

\* retrieve has returned a result under a lesson filter and an extra filter,
\* from a store holding a document without lesson_id
C4_Witness ==
    /\ pc = "returned"
    /\ ret.op = "retrieve"
    /\ InForce(ret.args.lesson_id)
    /\ DOMAIN ret.args.filter_metadata # {}
    /\ Len(ret.value) >= 1
    /\ \E i \in 1..Len(metadata) : "lesson_id" \notin DOMAIN metadata[i]

\* s is t with some elements left out
IsSubsequence(s, t) ==
    \E f \in [1..Len(s) -> 1..Len(t)] :
        /\ \A i \in 1..Len(s) : t[f[i]] = s[i]
        /\ \A i, j \in 1..Len(s) : i < j => f[i] < f[j]

NonDecreasing(ds) == \A i, j \in 1..Len(ds) : i < j => ds[i] <= ds[j]

Distances(value) == [n \in 1..Len(value) |-> value[n][3]]

\* C5: retrieve returns at most k results; they are the documents, metadata
\* and distances of a subsequence of the index's candidate list, so they
\* come in non-decreasing distance and in candidate order.
C5_AtMostKInOrder ==
    (pc = "returned" /\ ret.op = "retrieve") =>
        /\ Len(ret.value) <= ret.args.k
        /\ Len(ret.value) = Len(ret.idx)
        /\ IsSubsequence(ret.idx, ret.cands)
        /\ \A n \in 1..Len(ret.idx) :
             ret.value[n] = <<documents[ret.idx[n]], metadata[ret.idx[n]],
                              Dist(Embed(documents[ret.idx[n]]),
                                   Embed(ret.args.query))>>
        /\ NonDecreasing(Distances(ret.value))

\* retrieve has stopped at k = 1 with candidates left, after skipping the
\* nearest candidate
C5_Witness ==
    /\ pc = "returned"
    /\ ret.op = "retrieve"
    /\ ret.args.k = 1
    /\ Len(ret.idx) = 1
    /\ Len(ret.cands) = 3
    /\ ret.idx[1] = ret.cands[2]

NoFilter(a) ==
    /\ a.dataset_name = None
    /\ a.lesson_id = None
    /\ a.person_id = None
    /\ DOMAIN a.filter_metadata = {}

\* C6: with no filter, retrieve on a store of N documents returns min(k, N)
\* results for k >= 1, each with its distance to the query, in
\* non-decreasing distance.
C6_TopKUnfiltered ==
    (pc = "returned" /\ ret.op = "retrieve" /\ NoFilter(ret.args)
        /\ ret.args.k >= 1) =>
        /\ Len(ret.value) = Min(ret.args.k, Len(documents))
        /\ \A n \in 1..Len(ret.value) :
             ret.value[n][3] = Dist(Embed(ret.value[n][1]),
                                    Embed(ret.args.query))
        /\ NonDecreasing(Distances(ret.value))

\* an unfiltered retrieve with k below N has returned results at two
\* different distances
C6_Witness ==
    /\ pc = "returned"
    /\ ret.op = "retrieve"
    /\ NoFilter(ret.args)
    /\ ret.args.k = 2
    /\ Len(documents) = 3
    /\ Len(ret.value) = 2
    /\ ret.value[1][3] < ret.value[2][3]

\* C7: on a store without documents retrieve returns the empty list and
\* get_context_for_lesson the empty string, whatever the query, k and
\* filters, and neither raises.
C7_EmptyStore ==
    (pc = "returned" /\ IsQuery(ret) /\ Len(documents) = 0) =>
        /\ ret.status = "ok"
        /\ ret.value = <<>>

\* get_context_for_lesson has returned on the empty store, called with
\* k = 0 and filters
C7_Witness ==
    /\ pc = "returned"
    /\ ret.op = "get_context_for_lesson"
    /\ Len(documents) = 0
    /\ ret.args.k = 0
    /\ InForce(ret.args.lesson_id)
    /\ InForce(ret.args.person_id)

\* what retrieve returns for the filters of a get_context_for_lesson call
RetrieveFor(a) ==
    Retrieve(documents, metadata, index,
             [query |-> SearchQuery(a.lesson_id, a.person_id, a.query),
              k |-> a.k, lesson_id |-> a.lesson_id,
              person_id |-> a.person_id, filter_metadata |-> EmptyDict,
              dataset_name |-> a.dataset_name])

TextsOf(value) == [n \in 1..Len(value) |-> value[n][1]]

\* C8: the output of get_context_for_lesson is the texts of the documents
\* retrieve returns for the same lesson_id, person_id and dataset_name, in
\* the same order, joined by a blank line; it is empty when no candidate
\* satisfies the filters.
C8_ContextIsRetrieve ==
    (pc = "returned" /\ ret.op = "get_context_for_lesson") =>
        /\ ret.value = Join(<<"\n", "\n">>, TextsOf(RetrieveFor(ret.args).value))
        /\ ret.idx = RetrieveFor(ret.args).idx
        /\ (\A n \in 1..Len(ret.cands) :
                ~ArgsMatch(metadata[ret.cands[n]], ret.args))
              => ret.value = <<>>

\* get_context_for_lesson has joined two documents under a person filter,
\* from a store holding a document of another person
C8_Witness ==
    /\ pc = "returned"
    /\ ret.op = "get_context_for_lesson"
    /\ InForce(ret.args.person_id)
    /\ Len(ret.idx) = 2
    /\ \E i \in 1..Len(metadata) : ~ArgsMatch(metadata[i], ret.args)

QueriesKeepStore == (IsQuery(ret') /\ pc = "idle") => UNCHANGED store

SameAsSeen ==
    (pc = "returned" /\ IsQuery(ret) /\ seen.op = ret.op
        /\ seen.args = ret.args) =>
        /\ ret.status = seen.status
        /\ ret.value = seen.value

\* C9: retrieve and get_context_for_lesson leave documents, metadata and the
\* index unchanged, and a call repeated with the same arguments, with other
\* queries in between and no ingest, returns the same result as before.
C9_QueriesRepeatable == [](SameAsSeen) /\ [][QueriesKeepStore]_vars

\* a noted call has been repeated after another query, with a result
C9_Witness ==
    /\ pc = "returned"
    /\ IsQuery(ret)
    /\ seen.op = ret.op
    /\ seen.args = ret.args
    /\ seen.later
    /\ Len(ret.value) >= 2

\* C10: for every text, chunk_size >= 1 and 0 <= overlap < chunk_size the
\* start offset strictly increases from one chunk to the next (so the loop
\* ends and the sequence is finite), and the empty text yields no chunk.
C10_ChunkingProgresses ==
    [][(ck_size >= 1 /\ 0 <= ck_overlap /\ ck_overlap < ck_size
          /\ Len(ck_chunks') > Len(ck_chunks))
        => ck_start' > ck_start]_vars

\* C11: a call with overlap >= chunk_size fails with a configuration error:
\* it produces no chunk and does not return a chunk sequence.
C11_BadOverlapFailsFast ==
    ck_overlap >= ck_size => (ck_chunks = <<>> /\ ck_pc # "done")

NoBreaks(text) == \A i \in 1..Len(text) : text[i] \notin {".", "\n"}

OverlapFits == 0 <= ck_overlap /\ ck_overlap < ck_size

Stride == ck_size - ck_overlap

\* offsets (0-based, end exclusive) of the window of chunk i, i counted from 0
WindowStart(i) == i * Stride

WindowEnd(i) == i * Stride + ck_size

\* the characters of the text inside the window of chunk i
Window(i) == PySlice(ck_text, WindowStart(i), WindowEnd(i))

\* where the stored text of chunk i ends in the text
ChunkEnd(i) == Min(WindowEnd(i), Len(ck_text))

\* how many whitespace characters a text begins with
Lead(w) ==
    LET keep == {j \in 1..Len(w) : w[j] \notin Whitespace}
    IN  IF keep = {} THEN Len(w)
        ELSE (CHOOSE j \in keep : \A m \in keep : j <= m) - 1

\* the character at 1-based position p of the text is part of stored chunk i
InChunk(p, i) ==
    LET from == WindowStart(i) + Lead(Window(i))
    IN  /\ from < p
        /\ p <= from + Len(ck_chunks[i + 1])
        /\ ck_chunks[i + 1][p - from] = ck_text[p]

\* the chunk produced next is chunk number Len(ck_chunks), at offset ck_start
StartsOnStride ==
    ck_start < Len(ck_text) => ck_start = WindowStart(Len(ck_chunks))

\* C12: for a text without '.' and newline and 0 <= overlap < chunk_size,
\* chunk i starts at offset i * (chunk_size - overlap), each next chunk
\* starts overlap characters before the end of the previous chunk, and every
\* character of the text lies in at least one chunk.
C12_StrideAndCover ==
    (NoBreaks(ck_text) /\ OverlapFits) =>
        /\ StartsOnStride
        /\ (ck_chunks # <<>> /\ ck_start < Len(ck_text)) =>
               ck_start = ChunkEnd(Len(ck_chunks) - 1) - ck_overlap
        /\ ck_pc = "done" =>
               \A p \in 1..Len(ck_text) :
                  \E i \in 0..(Len(ck_chunks) - 1) : InChunk(p, i)

\* C12 as amended: chunk i is the window of chunk_size characters at offset
\* i * (chunk_size - overlap), stripped of the whitespace at its ends; each
\* next window starts overlap characters before the end (start + chunk_size)
\* of the previous window, also when the text ends inside that window; every
\* character that is not whitespace lies in at least one chunk.
C12_StrideAndCoverAmended ==
    (NoBreaks(ck_text) /\ OverlapFits) =>
        /\ StartsOnStride
        /\ (ck_chunks # <<>> /\ ck_start < Len(ck_text)) =>
               ck_start = WindowEnd(Len(ck_chunks) - 1) - ck_overlap
        /\ ck_pc = "done" =>
               \A p \in 1..Len(ck_text) :
                  ck_text[p] \notin Whitespace =>
                     \E i \in 0..(Len(ck_chunks) - 1) : InChunk(p, i)

\* a text with blanks and no sentence end was cut into overlapping chunks,
\* the last of them inside the window of the one before
C12_Witness ==
    /\ ck_pc = "done"
    /\ NoBreaks(ck_text)
    /\ OverlapFits
    /\ ck_overlap >= 2
    /\ Len(ck_chunks) >= 3
    /\ \E p \in 1..Len(ck_text) : ck_text[p] = " "
    /\ WindowEnd(Len(ck_chunks) - 2) > Len(ck_text)

\* C13: every stored document has at least one character that is not
\* whitespace, whatever was ingested.
C13_NoEmptyDocument ==
    \A i \in 1..Len(documents) : Strip(documents[i]) # <<>>

\* a load_from_dataset call has returned after adding its batch
Loaded == pc = "returned" /\ ret.op = "load_from_dataset" /\ ret.status = "ok"

LoadedPairs == ChunkPairs(ret.args.file, ret.args.a)

\* the metadata stored for chunk p[2] of record p[1] of the call
LoadedMeta(p) ==
    metadata[Len(metadata) - Cardinality(LoadedPairs)
               + PlaceOf(ret.args.file, ret.args.a, p)]

LoadedRecord(p) == LoadRecords(ret.args.file).dataset[p[1]]

\* the dataset name of a call: "default" when none or an empty one is passed
GivenName(a) ==
    IF a.dataset_name = None \/ a.dataset_name = <<>>
    THEN S_default ELSE a.dataset_name

\* the person id of a record: its value in the configured column
GivenPerson(a, record) ==
    IF a.person_id_column # NoColumn /\ a.person_id_column \in DOMAIN record
    THEN record[a.person_id_column] ELSE S_student_1

\* the record has a field of this name that is not the text field
OwnField(a, record, key) == key \in DOMAIN record /\ key # a.text_column

\* C14: every metadata record produced by load_from_dataset has the keys
\* dataset_name and person_id; dataset_name is the name passed ("default"
\* when none or an empty one), person_id is the record's value in the
\* configured person-id column ("student_1" when there is none).
C14_RequiredKeys ==
    Loaded =>
        \A p \in LoadedPairs :
            LET m == LoadedMeta(p)
            IN  /\ "dataset_name" \in DOMAIN m
                /\ "person_id" \in DOMAIN m
                /\ m["dataset_name"] = GivenName(ret.args.a)
                /\ m["person_id"] = GivenPerson(ret.args.a, LoadedRecord(p))

\* C14 as amended: the two keys are always present, with the values of C14
\* unless the record itself has a field named dataset_name or person_id
\* (other than the text field): then the stored value is the record's field.
C14_RequiredKeysAmended ==
    Loaded =>
        \A p \in LoadedPairs :
            LET m == LoadedMeta(p)
                r == LoadedRecord(p)
                a == ret.args.a
            IN  /\ "dataset_name" \in DOMAIN m
                /\ "person_id" \in DOMAIN m
                /\ m["dataset_name"] =
                      IF OwnField(a, r, "dataset_name") THEN r["dataset_name"]
                      ELSE GivenName(a)
                /\ m["person_id"] =
                      IF OwnField(a, r, "person_id") THEN r["person_id"]
                      ELSE GivenPerson(a, r)

\* a record with the configured person-id column was loaded after a record
\* with its own dataset_name and person_id fields
C14_Witness ==
    /\ Loaded
    /\ ret.args.file = JsonList(<<RecColumns>>)
    /\ ret.args.a = ArgsColumns
    /\ Len(metadata) = 2
    /\ metadata[1]["dataset_name"] = RecReserved["dataset_name"]
    /\ metadata[2]["person_id"] = RecColumns["pid"]

\* C15: every field of the record other than the text field is in the
\* chunk's metadata with the record's value, also under the keys
\* dataset_name, lesson_id and person_id.
C15_FieldsCopiedLast ==
    Loaded =>
        \A p \in LoadedPairs :
            \A x \in DOMAIN LoadedRecord(p) \ {ret.args.a.text_column} :
                /\ x \in DOMAIN LoadedMeta(p)
                /\ LoadedMeta(p)[x] = LoadedRecord(p)[x]

\* a record with fields named dataset_name, lesson_id and person_id was
\* loaded with a dataset name and with the id columns lesson_id and person_id
C15_Witness ==
    /\ Loaded
    /\ ret.args.file = JsonList(<<RecReserved>>)
    /\ ret.args.a = ArgsReserved
    /\ Len(metadata) = 1
    /\ metadata[1]["dataset_name"] # GivenName(ret.args.a)
    /\ metadata[1]["lesson_id"] = RecReserved["lesson_id"]

\* the prefix of a derived lesson id: the dataset name, or the fallback
\* when the name is "default"
LessonPrefix(a, fallback) ==
    IF GivenName(a) # S_default THEN GivenName(a) \o <<"_">> ELSE fallback

EndsWith(s, t) ==
    Len(t) <= Len(s) /\ SubSeq(s, Len(s) - Len(t) + 1, Len(s)) = t

\* C16: with no lesson-id column configured, a record with Country gets the
\* country slug with the dataset name (or "climate_") before it, also when
\* it has dt or Headline; else a record with dt gets global_temp_<date>;
\* else a record with Headline gets a slug of the headline's first three
\* words; else the metadata has no lesson_id key.
C16_LessonPrecedence ==
    (Loaded /\ ret.args.a.lesson_id_column = NoColumn) =>
        \A p \in LoadedPairs :
            LET m == LoadedMeta(p)
                r == LoadedRecord(p)
                a == ret.args.a
            IN  IF "Country" \in DOMAIN r
                THEN /\ "lesson_id" \in DOMAIN m
                     /\ m["lesson_id"] = LessonPrefix(a, S_climate_)
                                            \o Slug(Str(r["Country"]))
                ELSE IF "dt" \in DOMAIN r
                THEN /\ "lesson_id" \in DOMAIN m
                     /\ m["lesson_id"] = S_global_temp_ \o Str(r["dt"])
                ELSE IF "Headline" \in DOMAIN r
                THEN /\ "lesson_id" \in DOMAIN m
                     /\ EndsWith(m["lesson_id"],
                                 HeadlineSlug(Str(r["Headline"])))
                ELSE "lesson_id" \notin DOMAIN m

\* C16 as amended: the same precedence for a record without a field named
\* lesson_id, the headline slug with the dataset name (or "headline_")
\* before it; a record with its own lesson_id field keeps that value.
C16_LessonPrecedenceAmended ==
    (Loaded /\ ret.args.a.lesson_id_column = NoColumn) =>
        \A p \in LoadedPairs :
            LET m == LoadedMeta(p)
                r == LoadedRecord(p)
                a == ret.args.a
            IN  IF OwnField(a, r, "lesson_id")
                THEN /\ "lesson_id" \in DOMAIN m
                     /\ m["lesson_id"] = r["lesson_id"]
                ELSE IF "Country" \in DOMAIN r
                THEN /\ "lesson_id" \in DOMAIN m
                     /\ m["lesson_id"] = LessonPrefix(a, S_climate_)
                                            \o Slug(Str(r["Country"]))
                ELSE IF "dt" \in DOMAIN r
                THEN /\ "lesson_id" \in DOMAIN m
                     /\ m["lesson_id"] = S_global_temp_ \o Str(r["dt"])
                ELSE IF "Headline" \in DOMAIN r
                THEN /\ "lesson_id" \in DOMAIN m
                     /\ m["lesson_id"] = LessonPrefix(a, S_headline_)
                                            \o HeadlineSlug(Str(r["Headline"]))
                ELSE "lesson_id" \notin DOMAIN m

\* a record with Country, dt and Headline was loaded after a record with
\* Headline only, both without a lesson-id column and without a dataset name
C16_Witness ==
    /\ Loaded
    /\ ret.args.file = JsonList(<<RecPrecedence>>)
    /\ ret.args.a = ArgsDefault
    /\ Len(metadata) = 2
    /\ metadata[1]["lesson_id"]
         = <<"h", "e", "a", "d", "l", "i", "n", "e", "_", "h", "o", "t", "_", "d", "_", "a", "_", "b">>
    /\ metadata[2]["lesson_id"]
         = <<"c", "l", "i", "m", "a", "t", "e", "_", "s", "t", "_", "k", "s">>

\* C17: with a lesson-id column configured and present in the record, the
\* lesson_id of every chunk of the record is the slug of the column's value,
\* with the dataset name before it when the name is not "default", whatever
\* the column is named.
C17_LessonFromColumn ==
    Loaded =>
        \A p \in LoadedPairs :
            LET m == LoadedMeta(p)
                r == LoadedRecord(p)
                a == ret.args.a
            IN  (a.lesson_id_column # NoColumn
                    /\ a.lesson_id_column \in DOMAIN r) =>
                   /\ "lesson_id" \in DOMAIN m
                   /\ m["lesson_id"] = LessonPrefix(a, <<>>)
                                          \o Slug(Str(r[a.lesson_id_column]))

Contains(s, t) ==
    \E i \in 0..(Len(s) - Len(t)) : SubSeq(s, i + 1, i + Len(t)) = t

\* a file of records that carry Country and AverageTemperature only (and,
\* as a csv table, its index column)
OnlyCountryTemperature(file) ==
    /\ file.format \in {"json", "jsonl", "csv"}
    /\ file.parses
    /\ file.top = "list"
    /\ Len(file.data) > 0
    /\ \A i \in 1..Len(file.data) :
          DOMAIN file.data[i] \ {"Unnamed: 0"}
             = {"Country", "AverageTemperature"}

\* C18: loading such a file (json, jsonl or csv) with the default dataset
\* name adds one document per record, not empty, naming the country and its
\* temperature with two decimals, with lesson_id "climate_<country slug>".
C18_CountryTemperatureDocuments ==
    (pc = "returned" /\ ret.op = "load_from_dataset"
        /\ OnlyCountryTemperature(ret.args.file)
        /\ GivenName(ret.args.a) = S_default) =>
        LET rows == ret.args.file.data
            base == Len(documents) - Len(rows)
        IN  /\ ret.status = "ok"
            /\ base >= 0
            /\ \A j \in 1..Len(rows) :
                  /\ Strip(documents[base + j]) # <<>>
                  /\ Contains(documents[base + j], rows[j]["Country"])
                  /\ Contains(documents[base + j],
                              Format2(rows[j]["AverageTemperature"]))
                  /\ "lesson_id" \in DOMAIN metadata[base + j]
                  /\ metadata[base + j]["lesson_id"]
                       = S_climate_ \o Slug(rows[j]["Country"])

\* the documents the datasets of a list add to an empty store, each dataset
\* loaded on its own: nothing for a file that is missing or fails to load
RECURSIVE DocumentsOf(_)
DocumentsOf(configs) ==
    IF configs = <<>> THEN <<>>
    ELSE LET config == configs[Len(configs)]
             alone  == LoadFromDataset(<<>>, <<>>, <<>>, config.file, config.a)
         IN  DocumentsOf(SubSeq(configs, 1, Len(configs) - 1))
               \o (IF config.exists /\ alone.status = "ok"
                    THEN alone.documents ELSE <<>>)

\* C19: at startup every dataset of the list is attempted in turn, also
\* after one that failed; the store holds the documents of the datasets
\* that loaded, those before a failure included, and answers queries.
C19_StartupSkipsFailures ==
    /\ Len(boot.log) = boot.next - 1
    /\ boot.next <= Len(boot.datasets) + 1
    /\ documents = DocumentsOf(SubSeq(boot.datasets, 1, boot.next - 1))
    /\ Len(metadata) = Len(documents)
    /\ Len(index) = Len(documents)
    /\ (pc = "returned" /\ ret.op = "retrieve") =>
          /\ ret.status = "ok"
          /\ Len(ret.value) = Min(ret.args.k, Cardinality(
                {i \in 1..Len(documents) :
                    ret.args.dataset_name = None
                       \/ metadata[i]["dataset_name"] = ret.args.dataset_name}))

\* the first dataset loaded, the second failed, the two after it loaded,
\* and a query was answered from the documents of the three
C19_Witness ==
    /\ pc = "returned"
    /\ ret.op = "retrieve"
    /\ boot.log = <<"loaded", "failed", "loaded", "loaded">>
    /\ Len(documents) >= ContextK
    /\ Len(ret.value) = ContextK

\* the two artifacts of the path do not fit: the index holds another number
\* of vectors than there are saved documents or metadata records
ArtifactsDisagree ==
    /\ disk.saved
    /\ disk.data = "pickle"
    /\ \/ Len(disk.index) # Len(disk.documents)
       \/ Len(disk.index) # Len(disk.metadata)

\* C20: load_index raises, and leaves no store to query, when the index
\* artifact and the data artifact disagree in their number of entries.
C20_LoadRejectsMismatch ==
    (pc = "returned" /\ ret.op = "load_index" /\ ArtifactsDisagree) =>
        ret.status = "raised"

\* a filter is supplied: a named filter that is not empty, or an extra
\* filter mapping with at least one key
FilterSupplied(a) ==
    \/ InForce(a.dataset_name)
    \/ InForce(a.lesson_id)
    \/ InForce(a.person_id)
    \/ DOMAIN a.filter_metadata # {}

\* C23: retrieve asks the index for min(3k, N) candidates when any filter
\* is supplied, an extra filter mapping alone included, and for min(k, N)
\* candidates when none is, N being the number of stored documents.
C23_CandidateCount ==
    (pc = "returned" /\ ret.op = "retrieve" /\ Len(documents) > 0) =>
        Len(ret.cands) = Min(IF FilterSupplied(ret.args)
                             THEN 3 * ret.args.k ELSE ret.args.k,
                             Len(documents))

\* the metadata satisfies the filters of the call: the named filters in
\* force and, for every key of the extra mapping, meta.get(key) = value
Satisfies(meta, a) ==
    /\ ArgsMatch(meta, a)
    /\ \A key \in DOMAIN a.filter_metadata :
          Eq(Get(meta, key), a.filter_metadata[key])

\* the candidates of the returned call that satisfy its filters, in
\* candidate order
MatchingCandidates ==
    SelectSeq(ret.cands, LAMBDA p : Satisfies(metadata[p], ret.args))

\* C24: the result of retrieve is exactly the first k filter-satisfying
\* entries of the nearest candidates the call requested, in candidate order:
\* it is shorter than k only when fewer than k candidates satisfy the
\* filters, and no document beyond the candidate window is returned.
C24_FirstKOfWindow ==
    (pc = "returned" /\ ret.op = "retrieve" /\ Len(documents) > 0) =>
        /\ ret.cands = Search(index, Embed(ret.args.query), Len(ret.cands))
        /\ ret.idx = SubSeq(MatchingCandidates, 1,
                            Min(ret.args.k, Len(MatchingCandidates)))
        /\ Len(ret.value) = Len(ret.idx)
        /\ \A n \in 1..Len(ret.idx) :
              /\ ret.value[n][1] = documents[ret.idx[n]]
              /\ ret.value[n][2] = metadata[ret.idx[n]]

\* retrieve has returned fewer than k results, after passing over a
\* candidate that fails a filter and keeping a later one, while a document
\* beyond the candidate window satisfies the filters
C24_Witness ==
    /\ pc = "returned"
    /\ ret.op = "retrieve"
    /\ Len(ret.idx) >= 1
    /\ Len(ret.idx) < ret.args.k
    /\ ret.idx[1] # ret.cands[1]
    /\ \E p \in 1..Len(documents) :
          /\ \A n \in 1..Len(ret.cands) : ret.cands[n] # p
          /\ Satisfies(metadata[p], ret.args)

\* an argument that names a value: neither None nor the empty string
Named(v) == v # None /\ v # <<>>

\* the filters of the call other than lesson_id
OtherFilters(meta, r) ==
    /\ Named(r.args.dataset_name) =>
          HasValue(meta, "dataset_name", r.args.dataset_name)
    /\ Named(r.args.person_id) =>
          HasValue(meta, "person_id", r.args.person_id)
    /\ r.op = "retrieve" =>
          \A key \in DOMAIN r.args.filter_metadata :
              Eq(Get(meta, key), r.args.filter_metadata[key])

\* the candidates of the returned call that satisfy its other filters
OtherMatching ==
    SelectSeq(ret.cands, LAMBDA p : OtherFilters(metadata[p], ret))

\* C30: lesson_id "" is treated as absent by retrieve and
\* get_context_for_lesson: the results are the first k candidates that
\* satisfy the other filters, whatever their lesson_id and whether or not
\* they have one, and the candidate search is min(3k, N) only when
\* dataset_name or person_id is given, min(k, N) otherwise.
C30_EmptyLessonIsAbsent ==
    (/\ pc = "returned"
     /\ ret.op \in {"retrieve", "get_context_for_lesson"}
     /\ Len(documents) > 0
     /\ ret.args.lesson_id = <<>>) =>
        /\ Len(ret.cands) =
              Min(IF Named(ret.args.dataset_name) \/ Named(ret.args.person_id)
                  THEN 3 * ret.args.k ELSE ret.args.k,
                  Len(documents))
        /\ ret.idx = SubSeq(OtherMatching, 1,
                            Min(ret.args.k, Len(OtherMatching)))

\* a call with lesson_id "" and no other named filter has asked for k
\* candidates from a larger store and returned a document that has a
\* lesson_id together with one that has none
C30_Witness ==
    /\ pc = "returned"
    /\ ret.op \in {"retrieve", "get_context_for_lesson"}
    /\ ret.args.lesson_id = <<>>
    /\ Len(ret.cands) = ret.args.k
    /\ Len(documents) > ret.args.k
    /\ \E n \in 1..Len(ret.idx) : "lesson_id" \in DOMAIN metadata[ret.idx[n]]
    /\ \E n \in 1..Len(ret.idx) :
          "lesson_id" \notin DOMAIN metadata[ret.idx[n]]

\* C28: an ingest call (add_documents or load_from_dataset) that raises
\* leaves documents, metadata and the index exactly as they were before the
\* call.
C28_FailedIngestKeepsStore ==
    [][(pc = "idle" /\ IsIngest(ret') /\ ret'.status = "raised") =>
           (documents' = documents /\ metadata' = metadata /\ index' = index)]_vars

\* a load has raised at its second record, after a first record that
\* yields chunks, on a store that holds documents
C28_Witness ==
    /\ pc = "returned"
    /\ ret.op = "load_from_dataset"
    /\ ret.status = "raised"
    /\ ret.args.file = FileNumberText
    /\ Len(documents) >= 1
    /\ Len(index) = Len(documents)

\* C29: a load_index call that raises leaves documents, metadata and the
\* index as they were before the call, so index size, document count and
\* metadata count are still equal afterwards.
C29_FailedLoadKeepsStore ==
    [][(pc = "idle" /\ ret'.op = "load_index" /\ ret'.status = "raised") =>
           (documents' = documents /\ metadata' = metadata /\ index' = index)]_vars

\* C21: save_index leaves the store unchanged; a load_index after it, into
\* the same store or a newly constructed one, gives an index of the saved
\* size and the saved documents and metadata in the saved order; and a query
\* on the loaded store returns the results, in order, that it returned on
\* the store that was saved.
C21_RoundTrip ==
    /\ (pc = "returned" /\ ret.op = "save_index") =>
          /\ documents = seen.args.documents
          /\ metadata = seen.args.metadata
          /\ index = seen.args.index
    /\ seen.later =>
          /\ Len(index) = Len(seen.args.index)
          /\ documents = seen.args.documents
          /\ metadata = seen.args.metadata
    /\ (seen.later /\ pc = "returned" /\ ret.op = "retrieve") =>
          ret.value = seen.value[ret.args]

\* a query has returned two results on a store that was loaded back from
\* the artifacts of a save
C21_Witness ==
    /\ seen.later
    /\ pc = "returned"
    /\ ret.op = "retrieve"
    /\ Len(ret.value) = 2
    /\ Len(documents) >= 2

\* C22: a mutation updates the index, the documents and the metadata
\* atomically: in no state that a retrieve running beside an add_documents
\* can observe does the index size differ from the document count or the
\* metadata count, and such a retrieve receives no candidate position beyond
\* the end of documents or metadata.
C22_AtomicMutation ==
    threads.reader.pc # "idle" =>
        /\ Len(index) = Len(documents)
        /\ Len(index) = Len(metadata)
        /\ \A n \in 1..Len(threads.reader.cands) :
              /\ threads.reader.cands[n] <= Len(documents)
              /\ threads.reader.cands[n] <= Len(metadata)

\* _process_climate_csv has returned its records for the table ret.args
ClimateReturned == pc = "returned" /\ ret.op = "_process_climate_csv"

\* the distinct countries of the table, in the order of their first rows
TableCountries == UniqueFrom(ret.args, 1, <<>>)

\* how many rows of the table name the country and hold a date
DatedRows(country) ==
    Cardinality({i \in 1..Len(ret.args) :
                    /\ ret.args[i]["Country"] = country
                    /\ ToDatetime(ret.args[i]["dt"]) \notin {NaT, Outside}})

\* the kinds of the records returned for the country, in order
KindsOf(country) ==
    LET of(r)  == r["Country"] = country
        own    == SelectSeq(ret.value, of)
    IN  [n \in 1..Len(own) |-> own[n]["data_type"]]

\* C25 as stated: each of the first 50 distinct countries of a per-country
\* temperature table that has a dated row yields exactly three records
\* (summary, trend, recent window), whatever its number of rows, and the
\* countries after the 50th yield none.
C25_ThreeNarratives ==
    ClimateReturned =>
        \A n \in 1..Len(TableCountries) :
            IF n <= CountryLimit /\ DatedRows(TableCountries[n]) >= 1
            THEN KindsOf(TableCountries[n])
                    = <<ClimateWords.temperature, ClimateWords.trend, ClimateWords.recent>>
            ELSE n > CountryLimit => KindsOf(TableCountries[n]) = <<>>

\* C25 amended: in a table whose rows all name a country and have dt and
\* AverageTemperature columns, each of the first 50 distinct countries
\* yields three records (summary, trend, recent window, in this order) when
\* it has more than 20 dated rows, two records (summary, recent window) when
\* it has 1 to 20 dated rows, and none when it has no dated row; countries
\* after the 50th yield none, and no other record is returned.
C25_NarrativesAmended ==
    ClimateReturned =>
        /\ ret.status = "ok"
        /\ \A n \in 1..Len(TableCountries) :
              KindsOf(TableCountries[n]) =
                 IF n > CountryLimit \/ DatedRows(TableCountries[n]) = 0
                 THEN <<>>
                 ELSE IF DatedRows(TableCountries[n]) > TrendMinRows
                 THEN <<ClimateWords.temperature, ClimateWords.trend, ClimateWords.recent>>
                 ELSE <<ClimateWords.temperature, ClimateWords.recent>>
        /\ \A m \in 1..Len(ret.value) :
              \E n \in 1..Len(TableCountries) :
                 ret.value[m]["Country"] = TableCountries[n]

\* the records of a table of more than 50 countries are returned: three for
\* a country, two for another, and none for a country with a dated row
C25_Witness ==
    /\ ClimateReturned
    /\ Len(TableCountries) > CountryLimit
    /\ \E n \in 1..Len(TableCountries) : Len(KindsOf(TableCountries[n])) = 3
    /\ \E n \in 1..Len(TableCountries) : Len(KindsOf(TableCountries[n])) = 2
    /\ \E n \in 1..Len(TableCountries) :
          /\ DatedRows(TableCountries[n]) >= 1
          /\ KindsOf(TableCountries[n]) = <<>>

S_remained == <<"r", "e", "m", "a", "i", "n", "e", "d", " ", "r", "e", "l", "a", "t", "i", "v", "e", "l", "y", " ", "s", "t", "a", "b", "l", "e">>

\* the mean of the last third minus the mean of the first third of the
\* country's dated rows in time order, each a double and their difference
\* the double that the subtraction gives
TrendChange(country) ==
    LET rows  == Dated(CountryData(ret.args, country))
        third == Len(rows) \div 3
    IN  Minus(MeanTemperature(SubSeq(rows, Len(rows) - third + 1, Len(rows))),
              MeanTemperature(SubSeq(rows, 1, third)))

\* the trend records among the returned records
TrendRecords == {m \in 1..Len(ret.value) : ret.value[m]["data_type"] = ClimateWords.trend}

\* C26 as stated: the trend narrative says "increased" or "decreased" (late
\* mean above or below early mean) exactly when the absolute difference of
\* the two means exceeds 0.5, and "remained relatively stable" otherwise,
\* a difference of exactly 0.5 included.
C26_TrendWording ==
    ClimateReturned =>
        \A m \in TrendRecords :
            LET change == TrendChange(ret.value[m]["Country"])
                text   == ret.value[m]["text"]
            IN  /\ Contains(text, ClimateWords.increased)
                      <=> Less(Num(TrendThreshold), change)
                /\ Contains(text, ClimateWords.decreased)
                      <=> Less(change, Num(-TrendThreshold))
                /\ Contains(text, S_remained)
                      <=> ~Less(Num(TrendThreshold), AbsOf(change))

\* C26 amended: the trend narrative says "increased" or "decreased" exactly
\* when the difference of the two means, late minus early as the floating
\* point subtraction of the two floating point means gives it, is at least
\* 0.5 in absolute value (exactly 0.5 included), and "remained relatively
\* stable" exactly when it is below 0.5.
C26_TrendWordingAmended ==
    ClimateReturned =>
        \A m \in TrendRecords :
            LET change == TrendChange(ret.value[m]["Country"])
                text   == ret.value[m]["text"]
            IN  /\ Contains(text, ClimateWords.increased)
                      <=> ~Less(change, Num(TrendThreshold))
                /\ Contains(text, ClimateWords.decreased)
                      <=> ~Less(Num(-TrendThreshold), change)
                /\ Contains(text, S_remained)
                      <=> Less(AbsOf(change), Num(TrendThreshold))

\* a trend narrative for a difference of exactly half a degree downwards
\* says "decreased"
C26_Witness ==
    /\ ClimateReturned
    /\ \E m \in TrendRecords :
          /\ TrendChange(ret.value[m]["Country"]) = Num(-TrendThreshold)
          /\ Contains(ret.value[m]["text"], ClimateWords.decreased)

\* the request did not pass the handler's validation
Rejected == handler.request.person_id = <<>> \/ ~handler.request.client

\* the n-th lookup of the request in the handler was made with the filters
\* of stage n and gave the context the store holds for them
StageAsStated(n) ==
    LET stage == handler.stages[n]
    IN  /\ stage.args.lesson_id =
              IF n < 3 THEN handler.request.lesson_id ELSE None
        /\ stage.args.person_id =
              IF n = 1 THEN handler.request.person_id ELSE None
        /\ stage.args.dataset_name = handler.request.dataset_name
        /\ stage.args.filter_metadata = EmptyDict
        /\ stage.args.k = handler.request.context_k
        /\ stage.context =
              JoinBlank(DocsOf(Retrieve(documents, metadata, index,
                                        stage.args).value))

\* the handler looks context up: the request asks for it and there is a
\* retrieval system
LooksUp == handler.request.use_rag /\ handler.rag_system

\* C27: the quiz and learning-material handlers look context up in a fixed
\* order, (1) lesson and person, (2) lesson only, (3) neither, each with the
\* request's dataset_name; a lookup is made only when every earlier one gave
\* nothing, the first non-empty context is the one used, and when a lookup
\* raises the context is empty and the handler still goes on to generate,
\* where the answer is not yet decided.  The handlers look context up when
\* the request has use_rag and the application has a retrieval system.
C27_FilterCascade ==
    handler.pc # "idle" =>
        /\ Len(handler.stages) <= 3
        /\ (handler.stages # <<>>
               \/ handler.pc \in {"stage1", "stage2", "stage3", "snippets"}
               \/ handler.raised) => LooksUp /\ ~Rejected
        /\ \A n \in 1..Len(handler.stages) :
              /\ StageAsStated(n)
              /\ n < Len(handler.stages) => handler.stages[n].context = <<>>
        /\ handler.pc = "stage1" => Len(handler.stages) = 0
        /\ handler.pc = "stage2" => Len(handler.stages) = 1
        /\ handler.pc = "stage3" => Len(handler.stages) = 2
        /\ handler.pc \in {"stage2", "stage3"} =>
              handler.stages[Len(handler.stages)].context = <<>>
        /\ handler.pc = "snippets" =>
              /\ Len(handler.stages) >= 1
              /\ handler.context # <<>>
              /\ handler.context = handler.stages[Len(handler.stages)].context
        /\ (handler.pc \in {"generate", "done"} /\ ~Rejected) =>
              IF handler.raised THEN handler.context = <<>>
              ELSE IF ~LooksUp
              THEN handler.stages = <<>> /\ handler.context = <<>>
              ELSE /\ Len(handler.stages) >= 1
                   /\ handler.context
                         = handler.stages[Len(handler.stages)].context
                   /\ handler.context = <<>> => Len(handler.stages) = 3
        /\ Rejected => handler.stages = <<>> /\ handler.pc = "done"
        /\ handler.raised =>
              /\ handler.pc \in {"generate", "done"}
              /\ handler.pc = "generate" => handler.response = 0
              /\ handler.pc = "done" => handler.response \in {200, 500, 503}

\* a request with a lesson, a person and a dataset name found nothing in
\* the first two lookups and its context in the third, and goes on to the
\* generation
C27_Witness ==
    /\ handler.pc = "generate"
    /\ ~handler.raised
    /\ Truthy(handler.request.lesson_id)
    /\ Truthy(handler.request.dataset_name)
    /\ Len(handler.stages) = 3
    /\ handler.context # <<>>
    /\ Len(documents) > 1

====
